---- MODULE Spec2Model ----
(***************************************************************************)
(* Order-matching and settlement engine of the Ledger trading venue:       *)
(* the PL/pgSQL functions place_order and cancel_order                     *)
(* (supabase/migrations/20260225170000_add_clob_features.sql) over the     *)
(* tables profiles, vault_holdings, orders, trades, prices and             *)
(* price_history (supabase/schema.sql).                                    *)
(*                                                                         *)
(* Money is counted in whole cents.  A database NULL is the value NULL     *)
(* for references and NULL_PRICE for the nullable listing_price column.    *)
(***************************************************************************)
EXTENDS Integers, Sequences, FiniteSets, TLC

VARIABLES profiles, vault_holdings, orders, trades, prices, price_history,
          last, tx, clock,
          settledOrders, cancelledNonces, usdcBalance, nftBalance, paused,
          blockTimestamp, receipt

vars == <<profiles, vault_holdings, orders, trades, prices, price_history,
          last, tx, clock,
          settledOrders, cancelledNonces, usdcBalance, nftBalance, paused,
          blockTimestamp, receipt>>

dbvars == <<profiles, vault_holdings, orders, trades, prices, price_history>>

(* the matching engine's state, and the state of the LedgerExchange contract
   with the two token contracts it moves *)
enginevars == <<dbvars, last, tx, clock>>

chainvars == <<settledOrders, cancelledNonces, usdcBalance, nftBalance, paused,
               blockTimestamp, receipt>>

(***************************************************************************)
(* Bounds of the model.                                                    *)
(***************************************************************************)
MaxOrders == 3
MaxQty == 2
MaxFillOrders == 4
MaxErrOrders == 1
MaxCalls == 3
MaxCancelOrders == 3

MaxBlocks == 3

MaxStaleOrders == 3

(***************************************************************************)
(* Domains.                                                                *)
(***************************************************************************)
Accounts == {"A", "B"}
Symbols == {"X"}
HoldingIds == {"h1", "h2", "h3", "h4"}
NULL == "NULL"
NoHolding == "h0"
HoldingRefs == HoldingIds \cup {NoHolding, NULL}
NULL_PRICE == -1
Statuses == {"pending_authentication", "shipped", "received",
             "authenticating", "tradable", "withdrawn", "listed"}

(***************************************************************************)
(* A database is the record of its six tables.                             *)
(***************************************************************************)
DB(pr, vh, od, td, pc, ph) ==
  [profiles |-> pr, vault_holdings |-> vh, orders |-> od, trades |-> td,
   prices |-> pc, price_history |-> ph]

Committed ==
  DB(profiles, vault_holdings, orders, trades, prices, price_history)

Ok(D) == [ok |-> TRUE, db |-> D, err |-> "none"]
Raise(D, e) == [ok |-> FALSE, db |-> D, err |-> e]

(* r ; F  -- the next statement runs only when no exception was raised *)
Then(r, F(_)) == IF r.ok THEN F(r.db) ELSE r

(***************************************************************************)
(* Column CHECK constraints and foreign keys.                              *)
(***************************************************************************)
profiles_check(row) == row.cash_balance >= 0 /\ row.locked_balance >= 0

orders_check_QuantityOnly(row) == row.quantity >= 0

orders_check(row) == row.price > 0 /\ row.quantity >= 0

vault_holdings_check(row) ==
  /\ row.acquisition_price >= 0
  /\ (row.listing_price = NULL_PRICE \/ row.listing_price > 0)

HoldingExists(D, h) == h \in DOMAIN D.vault_holdings

(***************************************************************************)
(* Row updates.                                                            *)
(***************************************************************************)
UpdateProfile(D, a, dcash, dlocked) ==
  LET row == [cash_balance |-> D.profiles[a].cash_balance + dcash,
              locked_balance |-> D.profiles[a].locked_balance + dlocked]
      D2 == [D EXCEPT !.profiles[a] = row]
  IN IF profiles_check(row) THEN Ok(D2) ELSE Raise(D, "constraint")

UpdateHolding(D, h, row) ==
  IF ~HoldingExists(D, h) THEN Ok(D)
  ELSE IF vault_holdings_check(row)
       THEN Ok([D EXCEPT !.vault_holdings[h] = row])
       ELSE Raise(D, "constraint")

TransferHolding(D, h, buyer, price) ==
  IF ~HoldingExists(D, h) THEN Ok(D)
  ELSE UpdateHolding(D, h, [D.vault_holdings[h] EXCEPT
                              !.user_id = buyer,
                              !.status = "tradable",
                              !.listing_price = NULL_PRICE,
                              !.acquisition_price = price])

InsertOrder(D, row) ==
  IF /\ orders_check(row)
     /\ (row.holding_id = NULL \/ HoldingExists(D, row.holding_id))
  THEN Ok([D EXCEPT !.orders = Append(@, row)])
  ELSE Raise(D, "constraint")

SetOrder(D, id, st, qty) ==
  LET row == [D.orders[id] EXCEPT !.status = st, !.quantity = qty]
  IN IF orders_check(row) THEN Ok([D EXCEPT !.orders[id] = row]) ELSE Raise(D, "constraint")

InsertTrade(D, h, s, buyer, seller, price) ==
  IF h # NULL /\ HoldingExists(D, h)
  THEN Ok([D EXCEPT !.trades = Append(@, [holding_id |-> h, symbol |-> s,
                                          buyer_id |-> buyer,
                                          seller_id |-> seller,
                                          price |-> price])])
  ELSE Raise(D, "constraint")

(* trigger trg_log_price_history: a tick only when the price changed *)
log_price_history_EveryUpdate(D, s, old, new) ==
  [D EXCEPT !.price_history = Append(@, [symbol |-> s, price |-> new.price])]

log_price_history(D, s, old, new) ==
  IF old.price # new.price
  THEN [D EXCEPT !.price_history = Append(@, [symbol |-> s, price |-> new.price])]
  ELSE D

UpdatePrice(D, s, price) ==
  LET old == D.prices[s]
      new == [price |-> price, volume_24h |-> old.volume_24h + 1]
  IN Ok(log_price_history([D EXCEPT !.prices[s] = new], s, old, new))

(***************************************************************************)
(* Cursor queries of the matching loops.  A cursor row carries the columns *)
(* the query selects, as read when the loop starts.                        *)
(***************************************************************************)
MatchRow(D, i) ==
  [id |-> i, user_id |-> D.orders[i].user_id, price |-> D.orders[i].price,
   quantity |-> D.orders[i].quantity, holding_id |-> D.orders[i].holding_id]

AskEligible_OwnOrders(row, u, s, p) ==
  /\ row.symbol = s
  /\ row.type = "sell"
  /\ row.status = "open"
  /\ row.price <= p

AskEligible(row, u, s, p) ==
  /\ row.symbol = s
  /\ row.type = "sell"
  /\ row.status = "open"
  /\ row.user_id # u
  /\ row.price <= p

BidEligible_AnyStatus(row, u, s, p) ==
  /\ row.symbol = s
  /\ row.type = "buy"
  /\ row.user_id # u
  /\ row.price >= p

BidEligible(row, u, s, p) ==
  /\ row.symbol = s
  /\ row.type = "buy"
  /\ row.status = "open"
  /\ row.user_id # u
  /\ row.price >= p

AskBefore_Descending(D, i, j) ==
  \/ D.orders[i].price > D.orders[j].price
  \/ /\ D.orders[i].price = D.orders[j].price
     /\ D.orders[i].created_at < D.orders[j].created_at

(* ORDER BY o.price ASC, o.created_at ASC *)
AskBefore(D, i, j) ==
  \/ D.orders[i].price < D.orders[j].price
  \/ /\ D.orders[i].price = D.orders[j].price
     /\ \/ D.orders[i].created_at < D.orders[j].created_at
        \/ D.orders[i].created_at = D.orders[j].created_at /\ i < j

BidBefore_Ascending(D, i, j) ==
  \/ D.orders[i].price < D.orders[j].price
  \/ /\ D.orders[i].price = D.orders[j].price
     /\ D.orders[i].created_at < D.orders[j].created_at

(* ORDER BY o.price DESC, o.created_at ASC *)
BidBefore(D, i, j) ==
  \/ D.orders[i].price > D.orders[j].price
  \/ /\ D.orders[i].price = D.orders[j].price
     /\ \/ D.orders[i].created_at < D.orders[j].created_at
        \/ D.orders[i].created_at = D.orders[j].created_at /\ i < j

RECURSIVE SortAsks(_, _)
SortAsks(D, S) ==
  IF S = {} THEN <<>>
  ELSE LET f == CHOOSE i \in S : \A j \in S \ {i} : AskBefore(D, i, j)
       IN <<f>> \o SortAsks(D, S \ {f})

RECURSIVE SortBids(_, _)
SortBids(D, S) ==
  IF S = {} THEN <<>>
  ELSE LET f == CHOOSE i \in S : \A j \in S \ {i} : BidBefore(D, i, j)
       IN <<f>> \o SortBids(D, S \ {f})

AskCursor(D, u, s, p) ==
  LET ids == SortAsks(D, {i \in DOMAIN D.orders : AskEligible(D.orders[i], u, s, p)})
  IN [k \in DOMAIN ids |-> MatchRow(D, ids[k])]

BidCursor(D, u, s, p) ==
  LET ids == SortBids(D, {i \in DOMAIN D.orders : BidEligible(D.orders[i], u, s, p)})
  IN [k \in DOMAIN ids |-> MatchRow(D, ids[k])]

(***************************************************************************)
(* place_order, incoming buy: one pass of the loop body for cursor row m.  *)
(* An absent holding row leaves v_holding_status and v_holding_owner NULL, *)
(* the IF condition NULL, and the branch not taken.                        *)
(***************************************************************************)
AskIsStale_OwnerOnly(D, m) ==
  /\ m.holding_id # NULL
  /\ HoldingExists(D, m.holding_id)
  /\ D.vault_holdings[m.holding_id].user_id # m.user_id

AskIsStale(D, m) ==
  /\ m.holding_id # NULL
  /\ HoldingExists(D, m.holding_id)
  /\ \/ D.vault_holdings[m.holding_id].status # "listed"
     \/ D.vault_holdings[m.holding_id].user_id # m.user_id

BuyTradePrice_TakerLimit(p, m) == p

BuyTradePrice(p, m) == m.price

BuyerSettle_NoRefund(D, u, p, m) ==
  UpdateProfile(D, u, 0, 0 - p)

BuyerSettle_ReleaseTradePrice(D, u, p, m) ==
  UpdateProfile(D, u, 0, 0 - BuyTradePrice(p, m))

BuyerSettle(D, u, p, m) ==
  UpdateProfile(D, u, p - BuyTradePrice(p, m), 0 - p)

SellerCredit_TakerLimit(D, m, p) ==
  UpdateProfile(D, m.user_id, p, 0)

SellerCredit(D, m, p) ==
  UpdateProfile(D, m.user_id, BuyTradePrice(p, m), 0)

(* 2. seller gets the cash, 3. transfer holding, 4. record trade *)
BuyDeliver_NoTradeRow(D, u, s, p, m) ==
  Then(SellerCredit(D, m, p),
       LAMBDA d : TransferHolding(d, m.holding_id, u, BuyTradePrice(p, m)))

BuyDeliver(D, u, s, p, m) ==
  Then(Then(
    SellerCredit(D, m, p),
    LAMBDA d : TransferHolding(d, m.holding_id, u, BuyTradePrice(p, m))),
    LAMBDA d : InsertTrade(d, m.holding_id, s, u, m.user_id, BuyTradePrice(p, m)))

(* 4. update prices, 5. update quantities *)
BuyRecord(D, s, p, m) ==
  Then(UpdatePrice(D, s, BuyTradePrice(p, m)),
       LAMBDA d : SetOrder(d, m.id, "filled", 0))

BuyExecute(D, u, s, p, m) ==
  Then(Then(
    BuyerSettle(D, u, p, m),
    LAMBDA d : BuyDeliver(d, u, s, p, m)),
    LAMBDA d : BuyRecord(d, s, p, m))

StaleCancel(D, m) == SetOrder(D, m.id, "cancelled", D.orders[m.id].quantity)

(* the loop's state: the result so far and v_remaining_qty *)
Counted(r, rem) == [ok |-> r.ok, db |-> r.db, rem |-> rem, err |-> r.err]

BuyStep(D, u, s, p, m, rem) ==
  IF AskIsStale(D, m)
  THEN Counted(StaleCancel(D, m), rem)
  ELSE Counted(BuyExecute(D, u, s, p, m), rem - 1)

RECURSIVE BuyLoop(_, _, _, _, _)
BuyLoop(R, u, s, p, c) ==
  IF c = <<>> \/ ~R.ok \/ R.rem = 0 THEN R
  ELSE BuyLoop(BuyStep(R.db, u, s, p, Head(c), R.rem), u, s, p, Tail(c))

(***************************************************************************)
(* place_order, incoming sell: one pass of the loop body for cursor row m. *)
(***************************************************************************)
SellTradePrice(p, m) == m.price

(* 1. deduct from buyer's locked balance *)
SellDeduct(D, p, m) ==
  UpdateProfile(D, m.user_id, 0, 0 - SellTradePrice(p, m))

(* 2. give cash to seller, 3. transfer holding, 4. record trade *)
SellDeliver_HoldingSymbol(D, u, s, p, h, m) ==
  Then(Then(
    UpdateProfile(D, u, SellTradePrice(p, m), 0),
    LAMBDA d : TransferHolding(d, h, m.user_id, SellTradePrice(p, m))),
    LAMBDA d : InsertTrade(d, h, d.vault_holdings[h].symbol, m.user_id, u,
                           SellTradePrice(p, m)))

SellDeliver(D, u, s, p, h, m) ==
  Then(Then(
    UpdateProfile(D, u, SellTradePrice(p, m), 0),
    LAMBDA d : TransferHolding(d, h, m.user_id, SellTradePrice(p, m))),
    LAMBDA d : InsertTrade(d, h, s, m.user_id, u, SellTradePrice(p, m)))

(* 4. update prices, 5. update quantities *)
SellRecord(D, s, p, m) ==
  Then(UpdatePrice(D, s, SellTradePrice(p, m)),
       LAMBDA d :
         IF m.quantity > 1
         THEN SetOrder(d, m.id, d.orders[m.id].status, d.orders[m.id].quantity - 1)
         ELSE SetOrder(d, m.id, "filled", 0))

SellExecute(D, u, s, p, h, m) ==
  Then(Then(
    SellDeduct(D, p, m),
    LAMBDA d : SellDeliver(d, u, s, p, h, m)),
    LAMBDA d : SellRecord(d, s, p, m))

RECURSIVE SellLoop(_, _, _, _, _, _)
SellLoop(R, u, s, p, h, c) ==
  IF c = <<>> \/ ~R.ok \/ R.rem = 0 THEN R
  ELSE SellLoop(Counted(SellExecute(R.db, u, s, p, h, Head(c)), R.rem - 1),
                u, s, p, h, Tail(c))

(***************************************************************************)
(* place_order: validation, locking step, finalization.                    *)
(***************************************************************************)
ValidateArgs(t, q, h) ==
  /\ ~(t = "sell" /\ (q # 1 \/ h = NULL))
  /\ ~(t = "buy" /\ h # NULL)

InsufficientFunds_Never(D, u, p, q) == FALSE

InsufficientFunds(D, u, p, q) == D.profiles[u].cash_balance < p * q

LockFunds_DebitOnly(D, u, p, q) == UpdateProfile(D, u, 0 - p * q, 0)

LockFunds(D, u, p, q) == UpdateProfile(D, u, 0 - p * q, p * q)

HoldingNotSellable_OwnerOnly(D, u, h) ==
  /\ HoldingExists(D, h)
  /\ D.vault_holdings[h].user_id # u

HoldingNotSellable(D, u, h) ==
  /\ HoldingExists(D, h)
  /\ \/ D.vault_holdings[h].user_id # u
     \/ D.vault_holdings[h].status # "tradable"

ListHolding_StatusOnly(D, h, p) ==
  IF ~HoldingExists(D, h) THEN Ok(D)
  ELSE UpdateHolding(D, h, [D.vault_holdings[h] EXCEPT !.status = "listed"])

ListHolding(D, h, p) ==
  IF ~HoldingExists(D, h) THEN Ok(D)
  ELSE UpdateHolding(D, h, [D.vault_holdings[h] EXCEPT
                              !.status = "listed", !.listing_price = p])

NewOrder(u, s, t, p, q, h, now) ==
  [user_id |-> u, symbol |-> s, type |-> t, price |-> p, quantity |-> q,
   holding_id |-> h, status |-> "open", created_at |-> now]

Finalize_KeepQuantity(D, id, rem, q) ==
  IF rem = 0 THEN SetOrder(D, id, "filled", 0) ELSE Ok(D)

Finalize(D, id, rem, q) ==
  IF rem = 0 THEN SetOrder(D, id, "filled", 0)
  ELSE IF rem < q THEN SetOrder(D, id, D.orders[id].status, rem)
  ELSE Ok(D)

FinalizeLoop(R, id, q) ==
  IF R.ok THEN Finalize(R.db, id, R.rem, q) ELSE Raise(R.db, R.err)

(* the matching loop and finalization, once the new order is inserted *)
BuyMatch(D, u, s, p, q) ==
  FinalizeLoop(BuyLoop(Counted(Ok(D), q), u, s, p, AskCursor(D, u, s, p)),
               Len(D.orders), q)

SellMatch(D, u, s, p, h) ==
  FinalizeLoop(SellLoop(Counted(Ok(D), 1), u, s, p, h, BidCursor(D, u, s, p)),
               Len(D.orders), 1)

(* lock funds and insert the bid *)
BuyOpen(D, u, s, p, q, now) ==
  Then(LockFunds(D, u, p, q),
       LAMBDA d : InsertOrder(d, NewOrder(u, s, "buy", p, q, NULL, now)))

(* lock the holding and insert the ask *)
SellOpen(D, u, s, p, h, now) ==
  Then(ListHolding(D, h, p),
       LAMBDA d : InsertOrder(d, NewOrder(u, s, "sell", p, 1, h, now)))

place_order_buy_SilentReturn(D, u, s, p, q, now) ==
  IF InsufficientFunds(D, u, p, q) THEN Ok(D)
  ELSE Then(BuyOpen(D, u, s, p, q, now), LAMBDA d : BuyMatch(d, u, s, p, q))

place_order_buy(D, u, s, p, q, now) ==
  IF InsufficientFunds(D, u, p, q) THEN Raise(D, "insufficient_funds")
  ELSE Then(BuyOpen(D, u, s, p, q, now), LAMBDA d : BuyMatch(d, u, s, p, q))

place_order_sell(D, u, s, p, h, now) ==
  IF HoldingNotSellable(D, u, h) THEN Raise(D, "holding")
  ELSE Then(SellOpen(D, u, s, p, h, now), LAMBDA d : SellMatch(d, u, s, p, h))

(* a raised exception aborts the call's transaction: D is returned as it was *)
Abort(D, r) == IF r.ok THEN r ELSE Raise(D, r.err)

place_order(D, u, s, t, p, q, h, now) ==
  IF ~ValidateArgs(t, q, h) THEN Raise(D, "args")
  ELSE Abort(D, IF t = "buy" THEN place_order_buy(D, u, s, p, q, now)
                ELSE place_order_sell(D, u, s, p, h, now))

(***************************************************************************)
(* cancel_order.                                                           *)
(***************************************************************************)
OrderFound_AnyStatus(D, id, u) ==
  /\ id \in DOMAIN D.orders
  /\ D.orders[id].user_id = u

OrderFound(D, id, u) ==
  /\ id \in DOMAIN D.orders
  /\ D.orders[id].user_id = u
  /\ D.orders[id].status = "open"

CancelRefund_OneUnit(v_order) == v_order.price

CancelRefund(v_order) == v_order.price * v_order.quantity

UnlistHolding_KeepPrice(D, h) ==
  IF h = NULL \/ ~HoldingExists(D, h) THEN Ok(D)
  ELSE UpdateHolding(D, h, [D.vault_holdings[h] EXCEPT !.status = "tradable"])

UnlistHolding(D, h) ==
  IF h = NULL \/ ~HoldingExists(D, h) THEN Ok(D)
  ELSE UpdateHolding(D, h, [D.vault_holdings[h] EXCEPT
                              !.status = "tradable", !.listing_price = NULL_PRICE])

CancelMark(D, id) == SetOrder(D, id, "cancelled", D.orders[id].quantity)

CancelRelease(D, id, u) ==
  IF D.orders[id].type = "buy"
  THEN UpdateProfile(D, u, CancelRefund(D.orders[id]), 0 - CancelRefund(D.orders[id]))
  ELSE UnlistHolding(D, D.orders[id].holding_id)

cancel_order(D, id, u) ==
  IF ~OrderFound(D, id, u) THEN Raise(D, "not_found")
  ELSE Abort(D, Then(CancelMark(D, id), LAMBDA d : CancelRelease(d, id, u)))

(***************************************************************************)
(* Writers of vault_holdings outside place_order and cancel_order.         *)
(***************************************************************************)
(* PATCH /api/vault/update with { holdingId, status }: the caller's own
   holding gets the status; no row matched is an error of .single() *)
vault_update(D, u, h, st) ==
  IF ~HoldingExists(D, h) \/ D.vault_holdings[h].user_id # u
  THEN Raise(D, "not_found")
  ELSE UpdateHolding(D, h, [D.vault_holdings[h] EXCEPT !.status = st])

MatchOrderPay(D, buyer, seller, p) ==
  Then(UpdateProfile(D, buyer, 0 - p, 0),
       LAMBDA d : UpdateProfile(d, seller, p, 0))

MatchOrderDeliver(D, buyer, seller, h, p) ==
  Then(TransferHolding(D, h, buyer, p),
       LAMBDA d : InsertTrade(d, h, d.vault_holdings[h].symbol, buyer, seller, p))

(* match_order: the direct purchase of a listed holding *)
match_order(D, buyer, seller, h, p) ==
  IF D.profiles[buyer].cash_balance < p THEN Raise(D, "insufficient_funds")
  ELSE IF ~HoldingExists(D, h) THEN Raise(D, "constraint")
  ELSE IF D.vault_holdings[h].user_id # seller THEN Raise(D, "holding")
  ELSE IF D.vault_holdings[h].status # "listed" THEN Raise(D, "holding")
  ELSE Abort(D, Then(MatchOrderPay(D, buyer, seller, p),
                     LAMBDA d : MatchOrderDeliver(d, buyer, seller, h, p)))

(* DELETE of a vault_holdings row: orders.holding_id is ON DELETE SET NULL,
   trades.holding_id is ON DELETE CASCADE *)
delete_holding(D, h) ==
  IF ~HoldingExists(D, h) THEN Ok(D)
  ELSE Ok([D EXCEPT
             !.vault_holdings = [k \in DOMAIN D.vault_holdings \ {h} |->
                                   D.vault_holdings[k]],
             !.orders = [i \in DOMAIN D.orders |->
                           IF D.orders[i].holding_id = h
                           THEN [D.orders[i] EXCEPT !.holding_id = NULL]
                           ELSE D.orders[i]],
             !.trades = SelectSeq(D.trades, LAMBDA tr : tr.holding_id # h)])

(***************************************************************************)
(* contracts/src/LedgerExchange.sol: settlement of signed order pairs in   *)
(* USDC (an ERC-20) and CardNFT (an ERC-1155).  A transaction that reverts *)
(* leaves the state of the three contracts as it was.                      *)
(***************************************************************************)
Wallets == {"alice", "bob"}

Nonces == {1, 2}

OrderPricesUsdc == {1000}

OrderExpiries == {3}

tokenId == 1

QTY == 1

feeBps == 150

FEE_DENOMINATOR == 10000

feeRecipient == "feeRecipient"

(* struct Order *)
Orders ==
  [maker : Wallets, tokenId : {tokenId}, priceUsdc : OrderPricesUsdc,
   isBuy : BOOLEAN, quantity : {QTY}, nonce : Nonces, expiry : OrderExpiries]

(* the EIP-712 digest of an order: distinct orders have distinct digests *)
_hashOrder(order) ==
  <<"Order", order.maker, order.tokenId, order.priceUsdc, order.isBuy,
    order.quantity, order.nonce, order.expiry>>

(* a signature made with signer's key over digest h, and ECDSA.recover: the
   signer for the signed digest, an unrelated address for any other *)
Sign(signer, h) == [signer |-> signer, digest |-> h]

recover(h, signature) ==
  IF signature.digest = h THEN signature.signer ELSE "unrelated"

Chain(so, cn, ub, nb, pa, ts) ==
  [settledOrders |-> so, cancelledNonces |-> cn, usdcBalance |-> ub,
   nftBalance |-> nb, paused |-> pa, blockTimestamp |-> ts]

Deployed ==
  Chain(settledOrders, cancelledNonces, usdcBalance, nftBalance, paused,
        blockTimestamp)

Done(C) == [ok |-> TRUE, err |-> "none", st |-> C]

Revert(C, e) == [ok |-> FALSE, err |-> e, st |-> C]

AndThen(r, F(_)) == IF r.ok THEN F(r.st) ELSE r

_validateOrder_NoReplayCheck(C, order, orderHash, signature) ==
  IF C.blockTimestamp > order.expiry THEN Revert(C, "OrderExpired")
  ELSE IF <<order.maker, order.nonce>> \in C.cancelledNonces
  THEN Revert(C, "OrderCancelledError")
  ELSE IF recover(orderHash, signature) # order.maker
  THEN Revert(C, "InvalidSignature")
  ELSE Done(C)

_validateOrder(C, order, orderHash, signature) ==
  IF C.blockTimestamp > order.expiry THEN Revert(C, "OrderExpired")
  ELSE IF orderHash \in C.settledOrders THEN Revert(C, "OrderAlreadySettled")
  ELSE IF <<order.maker, order.nonce>> \in C.cancelledNonces
  THEN Revert(C, "OrderCancelledError")
  ELSE IF recover(orderHash, signature) # order.maker
  THEN Revert(C, "InvalidSignature")
  ELSE Done(C)

MarkSettled(C, buyHash, sellHash) ==
  Done([C EXCEPT !.settledOrders = @ \cup {buyHash, sellHash}])

(* cardNft.safeTransferFrom: the exchange is approved by every maker *)
NftTransferFrom(C, from, to, amount) ==
  IF C.nftBalance[from] < amount THEN Revert(C, "ERC1155InsufficientBalance")
  ELSE Done([C EXCEPT !.nftBalance =
                 [[@ EXCEPT ![from] = @ - amount] EXCEPT ![to] = @ + amount]])

(* usdc.safeTransferFrom: the exchange is approved by every maker *)
UsdcTransferFrom(C, from, to, amount) ==
  IF C.usdcBalance[from] < amount THEN Revert(C, "ERC20InsufficientBalance")
  ELSE Done([C EXCEPT !.usdcBalance =
                 [[@ EXCEPT ![from] = @ - amount] EXCEPT ![to] = @ + amount]])

grossUsdc(sellOrder) == sellOrder.priceUsdc * sellOrder.quantity

feeUsdc(sellOrder) == (grossUsdc(sellOrder) * feeBps) \div FEE_DENOMINATOR

netUsdc(sellOrder) == grossUsdc(sellOrder) - feeUsdc(sellOrder)

PayFee(C, buyOrder, sellOrder) ==
  IF feeUsdc(sellOrder) > 0
  THEN UsdcTransferFrom(C, buyOrder.maker, feeRecipient, feeUsdc(sellOrder))
  ELSE Done(C)

Swap(C, buyOrder, sellOrder) ==
  AndThen(AndThen(
    NftTransferFrom(C, sellOrder.maker, buyOrder.maker, sellOrder.quantity),
    LAMBDA c : UsdcTransferFrom(c, buyOrder.maker, sellOrder.maker, netUsdc(sellOrder))),
    LAMBDA c : PayFee(c, buyOrder, sellOrder))

Validated(C, buyOrder, buySignature, sellOrder, sellSignature) ==
  AndThen(_validateOrder(C, buyOrder, _hashOrder(buyOrder), buySignature),
          LAMBDA c : _validateOrder(c, sellOrder, _hashOrder(sellOrder), sellSignature))

Reverted(C, r) == IF r.ok THEN r ELSE Revert(C, r.err)

settle(C, buyOrder, buySignature, sellOrder, sellSignature) ==
  IF C.paused THEN Revert(C, "EnforcedPause")
  ELSE IF ~buyOrder.isBuy \/ sellOrder.isBuy THEN Revert(C, "SideError")
  ELSE IF buyOrder.priceUsdc < sellOrder.priceUsdc THEN Revert(C, "PriceMismatch")
  ELSE IF buyOrder.quantity # sellOrder.quantity THEN Revert(C, "QuantityMismatch")
  ELSE Reverted(C,
         AndThen(AndThen(
           Validated(C, buyOrder, buySignature, sellOrder, sellSignature),
           LAMBDA c : MarkSettled(c, _hashOrder(buyOrder), _hashOrder(sellOrder))),
           LAMBDA c : Swap(c, buyOrder, sellOrder)))

(* the nonces array, as the set of its elements *)
cancelOrders(C, sender, nonces) ==
  Done([C EXCEPT !.cancelledNonces = @ \cup {<<sender, n>> : n \in nonces}])

pause(C) == IF C.paused THEN Revert(C, "EnforcedPause") ELSE Done([C EXCEPT !.paused = TRUE])

unpause(C) == IF ~C.paused THEN Revert(C, "ExpectedPause") ELSE Done([C EXCEPT !.paused = FALSE])

NoHash == <<>>

NoReceipt ==
  [op |-> "none", ok |-> TRUE, err |-> "none", buyHash |-> NoHash,
   sellHash |-> NoHash]

InitUsdc == [w \in Wallets \cup {feeRecipient} |->
               IF w = "alice" THEN 3000 ELSE IF w = "bob" THEN 1000 ELSE 0]

InitNft == [w \in Wallets |-> IF w = "bob" THEN 1 ELSE 0]

InitChain ==
  /\ settledOrders = {}
  /\ cancelledNonces = {}
  /\ usdcBalance = InitUsdc
  /\ nftBalance = InitNft
  /\ paused = FALSE
  /\ blockTimestamp = 1
  /\ receipt = NoReceipt

(* one transaction, mined in a block of its own *)
Mined(r, rc) ==
  /\ settledOrders' = r.st.settledOrders
  /\ cancelledNonces' = r.st.cancelledNonces
  /\ usdcBalance' = r.st.usdcBalance
  /\ nftBalance' = r.st.nftBalance
  /\ paused' = r.st.paused
  /\ blockTimestamp' = blockTimestamp + 1
  /\ receipt' = [rc EXCEPT !.ok = r.ok, !.err = r.err]
  /\ UNCHANGED enginevars

Settle(buyOrder, buySigner, sellOrder, sellSigner) ==
  Mined(settle(Deployed, buyOrder, Sign(buySigner, _hashOrder(buyOrder)),
               sellOrder, Sign(sellSigner, _hashOrder(sellOrder))),
        [NoReceipt EXCEPT !.op = "settle", !.buyHash = _hashOrder(buyOrder),
                          !.sellHash = _hashOrder(sellOrder)])

CancelOrders(sender, nonces) ==
  Mined(cancelOrders(Deployed, sender, nonces),
        [NoReceipt EXCEPT !.op = "cancelOrders"])

Pause == Mined(pause(Deployed), [NoReceipt EXCEPT !.op = "pause"])

Unpause == Mined(unpause(Deployed), [NoReceipt EXCEPT !.op = "unpause"])

(***************************************************************************)
(* Calls that do not overlap: each call is one transaction, committed when *)
(* it returns and rolled back when it raises.  last is what the caller     *)
(* passed and what came back.                                              *)
(***************************************************************************)
NoCall ==
  [op |-> "none", ok |-> TRUE, err |-> "none", user_id |-> NULL,
   symbol |-> NULL, type |-> NULL, price |-> 0, quantity |-> 0,
   holding_id |-> NULL, id |-> 0, waited |-> FALSE]

Install(D) ==
  /\ profiles' = D.profiles
  /\ vault_holdings' = D.vault_holdings
  /\ orders' = D.orders
  /\ trades' = D.trades
  /\ prices' = D.prices
  /\ price_history' = D.price_history

(* the call returns r: its writes are committed, or none are *)
Return(r, call) ==
  /\ Install(r.db)
  /\ last' = [call EXCEPT !.ok = r.ok, !.err = r.err,
                          !.id = IF call.op = "place_order"
                                 THEN (IF r.ok THEN Len(r.db.orders) ELSE 0)
                                 ELSE call.id]
  /\ clock' = IF call.op = "place_order" /\ r.ok THEN clock + 1 ELSE clock
  /\ UNCHANGED chainvars

PlaceOrder(u, s, t, p, q, h) ==
  /\ Return(place_order(Committed, u, s, t, p, q, h, clock),
            [NoCall EXCEPT !.op = "place_order", !.user_id = u, !.symbol = s,
                           !.type = t, !.price = p, !.quantity = q,
                           !.holding_id = h])
  /\ UNCHANGED tx

CancelOrder(id, u) ==
  /\ Return(cancel_order(Committed, id, u),
            [NoCall EXCEPT !.op = "cancel_order", !.user_id = u, !.id = id])
  /\ UNCHANGED tx

Holding(u, s, st) ==
  [user_id |-> u, symbol |-> s, status |-> st,
   listing_price |-> NULL_PRICE, acquisition_price |-> 0]

Profile(c) == [cash_balance |-> c, locked_balance |-> 0]

InitPrices == [s \in Symbols |-> [price |-> 100, volume_24h |-> 0]]

InitWith(pr, vh) ==
  /\ profiles = pr
  /\ vault_holdings = vh
  /\ orders = <<>>
  /\ trades = <<>>
  /\ prices = InitPrices
  /\ price_history = <<>>
  /\ last = NoCall
  /\ tx = <<>>
  /\ clock = 1
  /\ InitChain

(* successful calls with prices PB (bids) and PS (asks), at most N orders *)
Calls(PB, PS, QS, N) ==
  \/ \E u \in Accounts, s \in Symbols, p \in PB, q \in QS :
        /\ Len(orders) < N
        /\ PlaceOrder(u, s, "buy", p, q, NULL)
        /\ last'.ok
  \/ \E u \in Accounts, s \in Symbols, p \in PS, h \in HoldingIds :
        /\ Len(orders) < N
        /\ PlaceOrder(u, s, "sell", p, 1, h)
        /\ last'.ok
  \/ \E id \in 1 .. N, u \in Accounts :
        /\ CancelOrder(id, u)
        /\ last'.ok

(***************************************************************************)
(* Spec: a book of two accounts, bids at 95 or 120, asks at 95 or 100.     *)
(***************************************************************************)
BuyPrices == {95, 120}
SellPrices == {95, 100}

InitProfiles == [a \in Accounts |-> IF a = "A" THEN Profile(600) ELSE Profile(0)]

InitHoldings ==
  [h \in HoldingIds |->
     CASE h = "h1" -> Holding("B", "X", "tradable")
       [] h = "h2" -> Holding("B", "X", "tradable")
       [] h = "h3" -> Holding("A", "X", "tradable")
       [] OTHER -> Holding("A", "X", "authenticating")]

Init == InitWith(InitProfiles, InitHoldings)

Next == Calls(BuyPrices, SellPrices, 1 .. MaxQty, MaxOrders)

Spec == Init /\ [][Next]_vars

(***************************************************************************)
(* SpecFill: a buyer with cash and a seller with three units, bids at 100  *)
(* for 1, 2 or 5 units.                                                    *)
(***************************************************************************)
FillBuyPrices == {100}
FillSellPrices == {100}

InitFillProfiles == [a \in Accounts |-> IF a = "A" THEN Profile(600) ELSE Profile(0)]

InitFillHoldings ==
  [h \in HoldingIds |->
     IF h = "h4" THEN Holding("A", "X", "authenticating")
     ELSE Holding("B", "X", "tradable")]

InitFill == InitWith(InitFillProfiles, InitFillHoldings)

FillQuantities == {1, 2, 5}

NextFill == Calls(FillBuyPrices, FillSellPrices, FillQuantities, MaxFillOrders)

SpecFill == InitFill /\ [][NextFill]_vars

(***************************************************************************)
(* SpecScenario: the worked scenario's accounts and prices.                *)
(***************************************************************************)
ScenarioPrices == {8500, 9000}

InitScenarioProfiles ==
  [a \in Accounts |-> IF a = "A" THEN Profile(10000) ELSE Profile(250)]

InitScenario == InitWith(InitScenarioProfiles, InitHoldings)

NextScenario == Calls(ScenarioPrices, ScenarioPrices, 1 .. MaxQty, MaxOrders)

SpecScenario == InitScenario /\ [][NextScenario]_vars

(***************************************************************************)
(* SpecErr: calls with any arguments, rejected ones included.              *)
(***************************************************************************)
InitErrHoldings(st) ==
  [h \in HoldingIds |->
     CASE h = "h1" -> Holding("B", "X", "tradable")
       [] h = "h2" -> Holding("B", "X", st)
       [] h = "h3" -> Holding("A", "X", "tradable")
       [] OTHER -> Holding("A", "X", st)]

InitErr ==
  \E st \in Statuses \ {"tradable", "listed"} :
     InitWith(InitProfiles, InitErrHoldings(st))

ErrQuantities == {1, 2, 3}

NextErr ==
  \/ \E u \in Accounts, s \in Symbols, p \in BuyPrices, q \in ErrQuantities :
        /\ PlaceOrder(u, s, "buy", p, q, NULL)
        /\ Len(orders') <= MaxErrOrders
  \/ \E u \in Accounts, s \in Symbols, p \in SellPrices, h \in HoldingRefs :
        /\ PlaceOrder(u, s, "sell", p, 1, h)
        /\ Len(orders') <= MaxErrOrders
  \/ \E u \in Accounts, s \in Symbols, h \in {"h1", "h3"} :
        /\ PlaceOrder(u, s, "buy", 95, 1, h)
        /\ Len(orders') <= MaxErrOrders
  \/ \E u \in Accounts, s \in Symbols, q \in {0, 2}, h \in {"h1", "h3"} :
        /\ PlaceOrder(u, s, "sell", 100, q, h)
        /\ Len(orders') <= MaxErrOrders
  \/ \E id \in 1 .. MaxErrOrders, u \in Accounts : CancelOrder(id, u)

SpecErr == InitErr /\ [][NextErr]_vars

(***************************************************************************)
(* SpecCancel: the book of SpecFill with every cancel_order call, rejected *)
(* ones included, the id of an order that does not exist among them.       *)
(***************************************************************************)
NextCancel ==
  \/ Calls(FillBuyPrices, FillSellPrices, {1}, MaxCancelOrders)
  \/ \E id \in 1 .. MaxCancelOrders + 1, u \in Accounts :
        /\ CancelOrder(id, u)
        /\ ~last'.ok

SpecCancel == InitFill /\ [][NextCancel]_vars

(***************************************************************************)
(* Calls that overlap.  Each session runs one call at a time as one         *)
(* READ COMMITTED transaction.  A statement that locks a row (SELECT ...    *)
(* FOR UPDATE, UPDATE) waits while another transaction holds that row, and  *)
(* then reads the row's latest committed version; the statements that      *)
(* follow it without locking anything new run in the same step.  A         *)
(* transaction's writes are private (tx[t].w) until it commits; row locks   *)
(* are held until it commits or rolls back.  The key-share locks of         *)
(* foreign-key checks are not modelled.                                     *)
(***************************************************************************)
Sessions == {"s1", "s2"}

NoWrites ==
  [profiles |-> [k \in {} |-> 0], vault_holdings |-> [k \in {} |-> 0],
   orders |-> [k \in {} |-> 0], new_orders |-> <<>>, trades |-> <<>>,
   prices |-> [k \in {} |-> 0], price_history |-> <<>>]

Idle ==
  [pc |-> "idle", call |-> NoCall, now |-> 0, locks |-> {}, w |-> NoWrites,
   cand |-> <<>>, rows |-> <<>>, rem |-> 0, waited |-> FALSE]

Changed(new, old) == [k \in {j \in DOMAIN old : new[j] # old[j]} |-> new[k]]

Added(new, old) == SubSeq(new, Len(old) + 1, Len(new))

Overlay(w, old) == [k \in DOMAIN old |-> IF k \in DOMAIN w THEN w[k] ELSE old[k]]

(* the rows of D that differ from the committed ones *)
Writes(D) ==
  [profiles |-> Changed(D.profiles, profiles),
   vault_holdings |-> Changed(D.vault_holdings, vault_holdings),
   orders |-> Changed(D.orders, orders),
   new_orders |-> Added(D.orders, orders),
   trades |-> Added(D.trades, trades),
   prices |-> Changed(D.prices, prices),
   price_history |-> Added(D.price_history, price_history)]

(* what session t's transaction reads: committed rows and its own writes *)
View(t) ==
  DB(Overlay(tx[t].w.profiles, profiles),
     Overlay(tx[t].w.vault_holdings, vault_holdings),
     Overlay(tx[t].w.orders, orders) \o tx[t].w.new_orders,
     trades \o tx[t].w.trades,
     Overlay(tx[t].w.prices, prices),
     price_history \o tx[t].w.price_history)

Row(table, key) == <<table, key>>

CanLock(t, L) == \A o \in Sessions \ {t} : L \cap tx[o].locks = {}

BuyNeeds(D, c) ==
  IF ValidateArgs(c.type, c.quantity, c.holding_id)
  THEN {Row("profiles", c.user_id)} ELSE {}

SellNeeds_NoLock(D, c) == {}

SellNeeds(D, c) ==
  IF ValidateArgs(c.type, c.quantity, c.holding_id) /\ HoldingExists(D, c.holding_id)
  THEN {Row("vault_holdings", c.holding_id)} ELSE {}

CancelNeeds_NoLock(D, c) == {}

CancelNeeds(D, c) ==
  IF OrderFound(D, c.id, c.user_id) THEN {Row("orders", c.id)} ELSE {}

ReleaseNeeds(D, c) ==
  IF D.orders[c.id].type = "buy" THEN {Row("profiles", c.user_id)}
  ELSE IF HoldingExists(D, D.orders[c.id].holding_id)
       THEN {Row("vault_holdings", D.orders[c.id].holding_id)} ELSE {}

StaleNeeds(D, m) ==
  IF HoldingExists(D, m.holding_id) THEN {Row("vault_holdings", m.holding_id)} ELSE {}

(* the row locks the next statement of session t asks for *)
Needs(t) ==
  CASE tx[t].pc = "validate" /\ tx[t].call.type = "buy" -> BuyNeeds(View(t), tx[t].call)
    [] tx[t].pc = "validate" /\ tx[t].call.type = "sell" -> SellNeeds(View(t), tx[t].call)
    [] tx[t].pc = "validate" /\ tx[t].call.op = "cancel_order" -> CancelNeeds(View(t), tx[t].call)
    [] tx[t].pc = "release" -> ReleaseNeeds(View(t), tx[t].call)
    [] tx[t].pc = "fetch" -> {Row("orders", Head(tx[t].cand))}
    [] tx[t].pc = "settle" /\ tx[t].call.type = "buy" -> StaleNeeds(View(t), Head(tx[t].rows))
    [] tx[t].pc = "settle" /\ tx[t].call.type = "sell" -> {Row("profiles", Head(tx[t].rows).user_id)}
    [] tx[t].pc = "deliver" /\ tx[t].call.type = "buy" -> {Row("profiles", Head(tx[t].rows).user_id)}
    [] tx[t].pc = "deliver" /\ tx[t].call.type = "sell" -> {Row("profiles", tx[t].call.user_id)}
    [] tx[t].pc = "record" -> {Row("prices", tx[t].call.symbol)}
    [] OTHER -> {}

Blocked(t) == ~CanLock(t, Needs(t))

WaitsFor(t) == {o \in Sessions \ {t} : Needs(t) \cap tx[o].locks # {}}

RECURSIVE Reach(_, _)
Reach(S, k) ==
  IF k = 0 THEN S ELSE Reach(S \cup UNION {WaitsFor(o) : o \in S}, k - 1)

Deadlocked_Undetected(t) == FALSE

Deadlocked(t) == t \in Reach(WaitsFor(t), Cardinality(Sessions))

(* the transaction ends with an error: its writes and locks are dropped *)
Rollback(t, e) ==
  /\ tx' = [tx EXCEPT ![t] = Idle]
  /\ last' = [tx[t].call EXCEPT !.ok = FALSE, !.err = e, !.waited = tx[t].waited]
  /\ UNCHANGED <<dbvars, clock, chainvars>>

Goto(t, pc, D, cand, rows, rem) ==
  /\ tx' = [tx EXCEPT ![t] = [@ EXCEPT !.pc = pc, !.w = Writes(D),
                                       !.locks = @ \cup Needs(t),
                                       !.cand = cand, !.rows = rows, !.rem = rem]]
  /\ UNCHANGED <<dbvars, last, clock, chainvars>>

(* the function returns: what is left is the transaction's commit *)
Complete(t, r) ==
  IF r.ok THEN Goto(t, "commit", r.db, <<>>, <<>>, tx[t].rem)
  ELSE Rollback(t, r.err)

(* top of the FOR loop: EXIT WHEN v_rem_qty = 0, or no row is left *)
Loop(t, D, rows, rem) ==
  IF rows = <<>> \/ rem = 0
  THEN Complete(t, Finalize(D, Len(D.orders), rem, tx[t].call.quantity))
  ELSE Goto(t, "settle", D, <<>>, rows, rem)

Fetched(t, D, cand, rows, rem) ==
  IF cand = <<>> THEN Loop(t, D, rows, rem)
  ELSE Goto(t, "fetch", D, cand, rows, rem)

CursorIds(c) == [k \in DOMAIN c |-> c[k].id]

Cursor(D, c) ==
  IF c.type = "buy" THEN CursorIds(AskCursor(D, c.user_id, c.symbol, c.price))
  ELSE CursorIds(BidCursor(D, c.user_id, c.symbol, c.price))

Eligible_NoRecheck(row, c) == TRUE

Eligible(row, c) ==
  IF c.type = "buy" THEN AskEligible(row, c.user_id, c.symbol, c.price)
  ELSE BidEligible(row, c.user_id, c.symbol, c.price)

(* the order is inserted and the cursor of the matching loop is opened *)
Opened(t, r) ==
  IF r.ok THEN Fetched(t, r.db, Cursor(r.db, tx[t].call), <<>>, tx[t].call.quantity)
  ELSE Rollback(t, r.err)

Stepped(t, r, pc) ==
  IF r.ok THEN Goto(t, pc, r.db, <<>>, tx[t].rows, tx[t].rem)
  ELSE Rollback(t, r.err)

Looped(t, r, rem) ==
  IF r.ok THEN Loop(t, r.db, Tail(tx[t].rows), rem)
  ELSE Rollback(t, r.err)

Begin(t, call) ==
  /\ tx[t].pc = "idle"
  /\ tx' = [tx EXCEPT ![t] = [Idle EXCEPT !.pc = "validate", !.call = call, !.now = clock]]
  /\ clock' = clock + 1
  /\ UNCHANGED chainvars
  /\ UNCHANGED <<dbvars, last>>

BeginPlace(t, u, s, ty, p, q, h) ==
  Begin(t, [NoCall EXCEPT !.op = "place_order", !.user_id = u, !.symbol = s,
                          !.type = ty, !.price = p, !.quantity = q,
                          !.holding_id = h])

BeginCancel(t, id, u) ==
  Begin(t, [NoCall EXCEPT !.op = "cancel_order", !.user_id = u, !.id = id])

(* place_order(buy): validate, lock the profile row, lock funds, insert *)
BuyFunds(t) ==
  /\ tx[t].pc = "validate"
  /\ tx[t].call.op = "place_order"
  /\ tx[t].call.type = "buy"
  /\ CanLock(t, Needs(t))
  /\ IF ~ValidateArgs(tx[t].call.type, tx[t].call.quantity, tx[t].call.holding_id)
     THEN Rollback(t, "args")
     ELSE IF InsufficientFunds(View(t), tx[t].call.user_id, tx[t].call.price,
                               tx[t].call.quantity)
     THEN Rollback(t, "insufficient_funds")
     ELSE Opened(t, BuyOpen(View(t), tx[t].call.user_id, tx[t].call.symbol,
                            tx[t].call.price, tx[t].call.quantity, tx[t].now))

(* place_order(sell): validate, lock the holding row, list it, insert *)
SellHolding(t) ==
  /\ tx[t].pc = "validate"
  /\ tx[t].call.op = "place_order"
  /\ tx[t].call.type = "sell"
  /\ CanLock(t, Needs(t))
  /\ IF ~ValidateArgs(tx[t].call.type, tx[t].call.quantity, tx[t].call.holding_id)
     THEN Rollback(t, "args")
     ELSE IF HoldingNotSellable(View(t), tx[t].call.user_id, tx[t].call.holding_id)
     THEN Rollback(t, "holding")
     ELSE Opened(t, SellOpen(View(t), tx[t].call.user_id, tx[t].call.symbol,
                             tx[t].call.price, tx[t].call.holding_id, tx[t].now))

(* the cursor locks its next row and checks the row's latest version *)
Fetch(t) ==
  /\ tx[t].pc = "fetch"
  /\ CanLock(t, Needs(t))
  /\ Fetched(t, View(t), Tail(tx[t].cand),
             IF Eligible(View(t).orders[Head(tx[t].cand)], tx[t].call)
             THEN Append(tx[t].rows, MatchRow(View(t), Head(tx[t].cand)))
             ELSE tx[t].rows,
             tx[t].rem)

(* buy loop: lock and check the ask's holding, settle the buyer *)
BuySettle(t) ==
  /\ tx[t].pc = "settle"
  /\ tx[t].call.type = "buy"
  /\ CanLock(t, Needs(t))
  /\ IF AskIsStale(View(t), Head(tx[t].rows))
     THEN Looped(t, StaleCancel(View(t), Head(tx[t].rows)), tx[t].rem)
     ELSE Stepped(t, BuyerSettle(View(t), tx[t].call.user_id, tx[t].call.price,
                                 Head(tx[t].rows)), "deliver")

BuyDelivery(t) ==
  /\ tx[t].pc = "deliver"
  /\ tx[t].call.type = "buy"
  /\ CanLock(t, Needs(t))
  /\ Stepped(t, BuyDeliver(View(t), tx[t].call.user_id, tx[t].call.symbol,
                           tx[t].call.price, Head(tx[t].rows)), "record")

BuyRecording(t) ==
  /\ tx[t].pc = "record"
  /\ tx[t].call.type = "buy"
  /\ CanLock(t, Needs(t))
  /\ Looped(t, BuyRecord(View(t), tx[t].call.symbol, tx[t].call.price,
                         Head(tx[t].rows)), tx[t].rem - 1)

(* sell loop: deduct from the bidder's locked balance *)
SellSettle(t) ==
  /\ tx[t].pc = "settle"
  /\ tx[t].call.type = "sell"
  /\ CanLock(t, Needs(t))
  /\ Stepped(t, SellDeduct(View(t), tx[t].call.price, Head(tx[t].rows)), "deliver")

SellDelivery(t) ==
  /\ tx[t].pc = "deliver"
  /\ tx[t].call.type = "sell"
  /\ CanLock(t, Needs(t))
  /\ Stepped(t, SellDeliver(View(t), tx[t].call.user_id, tx[t].call.symbol,
                            tx[t].call.price, tx[t].call.holding_id,
                            Head(tx[t].rows)), "record")

SellRecording(t) ==
  /\ tx[t].pc = "record"
  /\ tx[t].call.type = "sell"
  /\ CanLock(t, Needs(t))
  /\ Looped(t, SellRecord(View(t), tx[t].call.symbol, tx[t].call.price,
                          Head(tx[t].rows)), tx[t].rem - 1)

(* cancel_order: lock the order row if it is the caller's and open *)
CancelLock(t) ==
  /\ tx[t].pc = "validate"
  /\ tx[t].call.op = "cancel_order"
  /\ CanLock(t, Needs(t))
  /\ IF ~OrderFound(View(t), tx[t].call.id, tx[t].call.user_id)
     THEN Rollback(t, "not_found")
     ELSE Stepped(t, CancelMark(View(t), tx[t].call.id), "release")

CancelUnlock(t) ==
  /\ tx[t].pc = "release"
  /\ CanLock(t, Needs(t))
  /\ Complete(t, CancelRelease(View(t), tx[t].call.id, tx[t].call.user_id))

(* the transaction commits: its writes become the committed rows and its
   locks are released *)
Commit(t) ==
  /\ tx[t].pc = "commit"
  /\ Install(View(t))
  /\ tx' = [tx EXCEPT ![t] = Idle]
  /\ last' = [tx[t].call EXCEPT
                !.ok = TRUE, !.waited = tx[t].waited,
                !.id = IF tx[t].call.op = "place_order"
                       THEN Len(View(t).orders) ELSE @]
  /\ UNCHANGED <<clock, chainvars>>

(* the session's backend sleeps on a row lock another transaction holds *)
Wait(t) ==
  /\ tx[t].pc # "idle"
  /\ Blocked(t)
  /\ ~tx[t].waited
  /\ tx' = [tx EXCEPT ![t].waited = TRUE]
  /\ UNCHANGED <<dbvars, last, clock, chainvars>>

(* the lock manager finds a cycle of waiting transactions and ends one *)
DeadlockAbort(t) ==
  /\ tx[t].pc # "idle"
  /\ Deadlocked(t)
  /\ Rollback(t, "deadlock")

(***************************************************************************)
(* SpecConc: two sessions, a book of two resting asks, three more calls.   *)
(***************************************************************************)
ConcPrices == {100}

ConcHoldings == {"h1"}

InitConcProfiles == [a \in Accounts |-> Profile(200)]

InitConcBook ==
  place_order(
    place_order(DB(InitConcProfiles, InitHoldings, <<>>, <<>>, InitPrices, <<>>),
                "A", "X", "sell", 100, 1, "h3", 1).db,
    "B", "X", "sell", 100, 1, "h2", 2).db

InitConcClock == Len(InitConcBook.orders) + 1

InitConc ==
  /\ profiles = InitConcBook.profiles
  /\ vault_holdings = InitConcBook.vault_holdings
  /\ orders = InitConcBook.orders
  /\ trades = InitConcBook.trades
  /\ prices = InitConcBook.prices
  /\ price_history = InitConcBook.price_history
  /\ last = NoCall
  /\ tx = [t \in Sessions |-> Idle]
  /\ clock = InitConcClock
  /\ InitChain

NextConc ==
  \E t \in Sessions :
     \/ /\ clock < InitConcClock + MaxCalls
        /\ t = "s1" \/ tx["s1"].pc # "idle"
        /\ \/ \E u \in Accounts, s \in Symbols, p \in ConcPrices :
                 BeginPlace(t, u, s, "buy", p, 1, NULL)
           \/ \E u \in Accounts, s \in Symbols, p \in ConcPrices, h \in ConcHoldings :
                 BeginPlace(t, u, s, "sell", p, 1, h)
           \/ \E id \in DOMAIN orders, u \in Accounts : BeginCancel(t, id, u)
     \/ BuyFunds(t)
     \/ SellHolding(t)
     \/ Fetch(t)
     \/ BuySettle(t)
     \/ BuyDelivery(t)
     \/ BuyRecording(t)
     \/ SellSettle(t)
     \/ SellDelivery(t)
     \/ SellRecording(t)
     \/ CancelLock(t)
     \/ CancelUnlock(t)
     \/ Commit(t)
     \/ Wait(t)
     \/ DeadlockAbort(t)

SpecConc == InitConc /\ [][NextConc]_vars

(***************************************************************************)
(* SpecRace: two sessions, a book with A's resting ask and A's resting bid *)
(* for two units, three more calls.                                        *)
(***************************************************************************)
InitRaceBook ==
  place_order(
    place_order(DB(InitConcProfiles, InitHoldings, <<>>, <<>>, InitPrices, <<>>),
                "A", "X", "sell", 100, 1, "h3", 1).db,
    "A", "X", "buy", 100, 2, NULL, 2).db

InitRace ==
  /\ profiles = InitRaceBook.profiles
  /\ vault_holdings = InitRaceBook.vault_holdings
  /\ orders = InitRaceBook.orders
  /\ trades = InitRaceBook.trades
  /\ prices = InitRaceBook.prices
  /\ price_history = InitRaceBook.price_history
  /\ last = NoCall
  /\ tx = [t \in Sessions |-> Idle]
  /\ clock = InitConcClock
  /\ InitChain

SpecRace == InitRace /\ [][NextConc]_vars

(***************************************************************************)
(* SpecStale: asks rest in the book while writers outside the engine       *)
(* change or delete their holdings; then buys arrive.                      *)
(***************************************************************************)
VaultUpdate(u, h, st) ==
  /\ Return(vault_update(Committed, u, h, st),
            [NoCall EXCEPT !.op = "vault_update", !.user_id = u, !.holding_id = h])
  /\ UNCHANGED tx

MatchOrder(buyer, seller, h, p) ==
  /\ Return(match_order(Committed, buyer, seller, h, p),
            [NoCall EXCEPT !.op = "match_order", !.user_id = buyer,
                           !.holding_id = h, !.price = p])
  /\ UNCHANGED tx

DeleteHolding(h) ==
  /\ Return(delete_holding(Committed, h),
            [NoCall EXCEPT !.op = "delete_holding", !.holding_id = h])
  /\ UNCHANGED tx

StalePrices == {95, 100}

StaleHoldings == {"h1", "h2"}

StaleStatuses == {"tradable", "withdrawn"}

InitStale == InitWith(InitProfiles, InitHoldings)

NextStale ==
  \/ \E u \in Accounts, s \in Symbols, p \in StalePrices, h \in StaleHoldings :
        /\ Len(orders) < MaxStaleOrders
        /\ PlaceOrder(u, s, "sell", p, 1, h)
        /\ last'.ok
  \/ \E u \in Accounts, s \in Symbols, q \in 1 .. MaxQty :
        /\ Len(orders) < MaxStaleOrders
        /\ PlaceOrder(u, s, "buy", 100, q, NULL)
  \/ \E u \in Accounts, h \in StaleHoldings, st \in StaleStatuses :
        /\ Len(orders) < MaxStaleOrders
        /\ VaultUpdate(u, h, st)
        /\ last'.ok
  \/ \E buyer \in Accounts, h \in StaleHoldings :
        /\ Len(orders) < MaxStaleOrders
        /\ Len(trades) = 0
        /\ h \in DOMAIN vault_holdings
        /\ vault_holdings[h].status = "listed"
        /\ MatchOrder(buyer, vault_holdings[h].user_id, h,
                      vault_holdings[h].listing_price)
        /\ last'.ok
  \/ \E h \in StaleHoldings :
        /\ Len(orders) < MaxStaleOrders
        /\ DeleteHolding(h)

SpecStale == InitStale /\ [][NextStale]_vars

(***************************************************************************)
(* SpecChain: transactions sent to the deployed LedgerExchange, one per     *)
(* block, by anyone and with any signer's signature.                       *)
(***************************************************************************)
InitChainSpec == InitWith(InitProfiles, InitHoldings)

NextChain ==
  \/ \E buyOrder \in Orders, sellOrder \in Orders, buySigner \in Wallets,
        sellSigner \in Wallets :
        /\ blockTimestamp <= MaxBlocks
        /\ Settle(buyOrder, buySigner, sellOrder, sellSigner)
  \/ \E sender \in Wallets, nonces \in SUBSET Nonces :
        /\ blockTimestamp <= MaxBlocks
        /\ CancelOrders(sender, nonces)
  \/ /\ blockTimestamp <= MaxBlocks
     /\ Pause
  \/ /\ blockTimestamp <= MaxBlocks
     /\ Unpause

SpecChain == InitChainSpec /\ [][NextChain]_vars

(***************************************************************************)
(* What one step of a specification did, read from the state before and    *)
(* the state after.                                                        *)
(***************************************************************************)
Balance(a) == profiles[a].cash_balance + profiles[a].locked_balance

Placed == last'.op = "place_order" /\ last'.ok

Cancelled == last'.op = "cancel_order" /\ last'.ok

NewTrades == (Len(trades) + 1) .. Len(trades')

RECURSIVE Received(_, _, _)
Received(T, k, a) ==
  IF k > Len(T) THEN 0
  ELSE (IF T[k].seller_id = a THEN T[k].price ELSE 0) + Received(T, k + 1, a)

RECURSIVE Paid(_, _, _)
Paid(T, k, a) ==
  IF k > Len(T) THEN 0
  ELSE (IF T[k].buyer_id = a THEN T[k].price ELSE 0) + Paid(T, k + 1, a)

TradedInStep(i) == orders[i].status = "open" /\ orders'[i].status = "filled"

(* C1: in every step, each account's cash_balance + locked_balance changes
   by exactly the prices of the step's trades it sold minus those it
   bought, and a seller's proceeds arrive in cash_balance; so the total of
   cash_balance + locked_balance over all accounts never changes. *)
C1_CashConservation ==
  [][\A a \in Accounts :
        LET got == Received(trades', Len(trades) + 1, a)
            gave == Paid(trades', Len(trades) + 1, a)
        IN /\ Balance(a)' = Balance(a) + got - gave
           /\ got > 0 => /\ profiles'[a].cash_balance = profiles[a].cash_balance + got
                         /\ profiles'[a].locked_balance = profiles[a].locked_balance
           /\ gave > 0 => Balance(a)' = Balance(a) - gave]_vars

C1_Witness ==
  /\ last.op = "cancel_order"
  /\ last.ok
  /\ \E k \in DOMAIN trades, i \in DOMAIN orders :
        /\ orders[i].type = "buy"
        /\ orders[i].user_id = trades[k].buyer_id
        /\ trades[k].price < orders[i].price

OpenSells(O, h) ==
  {i \in DOMAIN O : O[i].type = "sell" /\ O[i].status = "open" /\ O[i].holding_id = h}

(* C2: in every reachable state, also while place_order(sell) calls that
   name the same holding overlap, each holding is referenced by at most one
   open sell order, in the committed orders and in what each transaction
   reads. *)
C2_Uniqueness ==
  \A h \in HoldingIds :
     /\ Cardinality(OpenSells(orders, h)) <= 1
     /\ \A t \in Sessions : Cardinality(OpenSells(View(t).orders, h)) <= 1

C2_Witness ==
  /\ last.op = "place_order"
  /\ last.type = "sell"
  /\ ~last.ok
  /\ last.err = "holding"
  /\ last.waited
  /\ vault_holdings[last.holding_id].user_id = last.user_id
  /\ vault_holdings[last.holding_id].status = "listed"
  /\ \E i \in OpenSells(orders, last.holding_id) :
        /\ orders[i].user_id = last.user_id
        /\ orders[i].created_at >= InitConcClock

(* C3: a successful place_order leaves every resting order of the caller
   as it was, and no trade it records has the buyer as its seller. *)
C3_NoSelfTrade ==
  [][Placed =>
       /\ \A i \in DOMAIN orders :
             orders[i].user_id = last'.user_id => orders'[i] = orders[i]
       /\ \A k \in NewTrades : trades'[k].buyer_id # trades'[k].seller_id]_vars

C3_Witness ==
  /\ last.op = "place_order"
  /\ last.ok
  /\ last.type = "buy"
  /\ orders[last.id].quantity < last.quantity
  /\ trades[Len(trades)].buyer_id = last.user_id
  /\ \E i \in 1 .. (last.id - 1) :
        /\ orders[i].user_id = last.user_id
        /\ orders[i].type = "sell"
        /\ orders[i].status = "open"
        /\ orders[i].symbol = last.symbol
        /\ orders[i].price < trades[Len(trades)].price

EligibleAsk(i) ==
  /\ orders[i].type = "sell"
  /\ orders[i].status = "open"
  /\ orders[i].symbol = last'.symbol
  /\ orders[i].user_id # last'.user_id
  /\ orders[i].price <= last'.price
  /\ orders[i].holding_id \in DOMAIN vault_holdings
  /\ vault_holdings[orders[i].holding_id].status = "listed"
  /\ vault_holdings[orders[i].holding_id].user_id = orders[i].user_id

BetterAsk(j, i) ==
  \/ orders[j].price < orders[i].price
  \/ orders[j].price = orders[i].price /\ orders[j].created_at < orders[i].created_at

(* C4: in a place_order(buy), a resting ask is traded only if every
   eligible resting ask that is cheaper, or equally priced and created
   earlier, is traded in the same call. *)
C4_PriceTimePriority ==
  [][(Placed /\ last'.type = "buy") =>
       \A i, j \in DOMAIN orders :
          (EligibleAsk(i) /\ EligibleAsk(j) /\ TradedInStep(i) /\ BetterAsk(j, i))
             => TradedInStep(j)]_vars

C4_Witness ==
  /\ Len(orders) = 3
  /\ orders[1].type = "sell" /\ orders[1].price = 100 /\ orders[1].status = "open"
  /\ orders[2].type = "sell" /\ orders[2].price = 95 /\ orders[2].status = "filled"
  /\ orders[3].type = "buy" /\ orders[3].price = 120 /\ orders[3].status = "filled"
  /\ last.op = "place_order" /\ last.quantity = 1 /\ last.id = 3
  /\ Len(trades) = 1
  /\ trades[1].price = 95

(* C5: every trade a place_order records carries the price of the resting
   order it matched: the ask's price for an incoming buy, the bid's price
   for an incoming sell. *)
C5_MakerPrice ==
  [][Placed =>
       \A k \in NewTrades :
          IF last'.type = "buy"
          THEN \E i \in DOMAIN orders :
                  /\ orders[i].type = "sell"
                  /\ TradedInStep(i)
                  /\ orders[i].holding_id = trades'[k].holding_id
                  /\ orders[i].user_id = trades'[k].seller_id
                  /\ trades'[k].buyer_id = last'.user_id
                  /\ trades'[k].price = orders[i].price
          ELSE \E i \in DOMAIN orders :
                  /\ orders[i].type = "buy"
                  /\ orders[i].status = "open"
                  /\ orders'[i].quantity = orders[i].quantity - 1
                  /\ orders[i].user_id = trades'[k].buyer_id
                  /\ trades'[k].seller_id = last'.user_id
                  /\ trades'[k].holding_id = last'.holding_id
                  /\ trades'[k].price = orders[i].price]_vars

C5_Witness ==
  /\ last.op = "place_order"
  /\ last.ok
  /\ last.type = "buy"
  /\ orders[last.id].quantity < last.quantity
  /\ trades[Len(trades)].price < last.price

ScenarioRan ==
  /\ Len(orders) = 2
  /\ orders[1].user_id = "B"
  /\ orders[1].type = "sell"
  /\ orders[1].symbol = "X"
  /\ orders[1].price = 8500
  /\ orders[1].status # "cancelled"
  /\ last = [op |-> "place_order", ok |-> TRUE, err |-> "none", user_id |-> "A",
             symbol |-> "X", type |-> "buy", price |-> 9000, quantity |-> 1,
             holding_id |-> NULL, id |-> 2, waited |-> FALSE]

(* C6: after B: place_order(sell, X, 8500, 1, h) and then
   A: place_order(buy, X, 9000, 1), from A with cash 10000 and nothing
   locked, there is exactly one trade, at 8500 from B to A; A has cash 1500
   and nothing locked, B has 8500 more cash, the holding is A's, tradable
   and without a listing price, X's last price is 8500 and both orders are
   filled. *)
C6_WorkedScenario ==
  ScenarioRan =>
     LET h == orders[1].holding_id
     IN /\ trades = <<[holding_id |-> h, symbol |-> "X", buyer_id |-> "A",
                       seller_id |-> "B", price |-> 8500]>>
        /\ profiles["A"] = [cash_balance |-> 1500, locked_balance |-> 0]
        /\ profiles["B"].cash_balance = InitScenarioProfiles["B"].cash_balance + 8500
        /\ profiles["B"].locked_balance = 0
        /\ vault_holdings[h].user_id = "A"
        /\ vault_holdings[h].status = "tradable"
        /\ vault_holdings[h].listing_price = NULL_PRICE
        /\ prices["X"].price = 8500
        /\ orders[1].status = "filled"
        /\ orders[2].status = "filled"

C6_Witness == ScenarioRan /\ vault_holdings[orders[1].holding_id].symbol = "X"

(* C7: when place_order(buy, L, q) with q >= 1 returns after k trades, the
   new order is filled with quantity 0 if k = q, open with quantity q - k
   if 0 < k < q, and open with quantity q if k = 0. *)
C7_Finalization ==
  [][(Placed /\ last'.type = "buy") =>
       LET k == Len(trades') - Len(trades)
           q == last'.quantity
           o == orders'[last'.id]
       IN /\ k <= q
          /\ k = q => (o.status = "filled" /\ o.quantity = 0)
          /\ (0 < k /\ k < q) => (o.status = "open" /\ o.quantity = q - k)
          /\ k = 0 => (o.status = "open" /\ o.quantity = q)]_vars

C7_Witness ==
  /\ last.op = "place_order"
  /\ last.ok
  /\ last.type = "buy"
  /\ last.quantity = 5
  /\ last.price = 100
  /\ Len(trades) = 3
  /\ \A k \in DOMAIN trades : trades[k].buyer_id = last.user_id
  /\ orders[last.id].status = "open"
  /\ orders[last.id].quantity = 2

(* C8: every open buy order can be cancelled by its owner, and the cancel
   moves exactly limit price times remaining quantity from the owner's
   locked_balance to the owner's cash_balance and sets the order to
   cancelled. *)
C8_CancelRefund ==
  [][/\ \A i \in DOMAIN orders :
           (orders[i].type = "buy" /\ orders[i].status = "open")
              => cancel_order(Committed, i, orders[i].user_id).ok
     /\ (Cancelled /\ orders[last'.id].type = "buy") =>
           LET o == orders[last'.id]
               u == o.user_id
           IN /\ o.status = "open"
              /\ u = last'.user_id
              /\ profiles'[u].cash_balance =
                    profiles[u].cash_balance + o.price * o.quantity
              /\ profiles'[u].locked_balance =
                    profiles[u].locked_balance - o.price * o.quantity
              /\ orders'[last'.id].status = "cancelled"]_vars

C8_Witness ==
  /\ last.op = "cancel_order"
  /\ last.ok
  /\ orders[last.id].type = "buy"
  /\ orders[last.id].status = "cancelled"
  /\ orders[last.id].price = 100
  /\ orders[last.id].quantity = 2
  /\ Len(trades) = 3
  /\ \A k \in DOMAIN trades : trades[k].buyer_id = last.user_id
  /\ profiles[last.user_id].locked_balance = 0
  /\ profiles[last.user_id].cash_balance = InitFillProfiles[last.user_id].cash_balance - 300

(* C9: place_order(buy, L, q) by an account whose cash_balance is less than
   L * q fails, and the six tables are left as they were. *)
C9_InsufficientFunds ==
  [][(/\ last'.op = "place_order"
      /\ last'.type = "buy"
      /\ profiles[last'.user_id].cash_balance < last'.price * last'.quantity)
       => (~last'.ok /\ UNCHANGED dbvars)]_vars

C9_Witness ==
  /\ last.op = "place_order"
  /\ last.type = "buy"
  /\ ~last.ok
  /\ last.err = "insufficient_funds"
  /\ profiles[last.user_id].cash_balance > 0
  /\ profiles[last.user_id].locked_balance > 0
  /\ profiles[last.user_id].cash_balance < last.price * last.quantity

BadSell ==
  /\ last'.type = "sell"
  /\ \/ last'.holding_id = NULL
     \/ last'.quantity # 1
     \/ last'.holding_id \notin DOMAIN vault_holdings
     \/ vault_holdings[last'.holding_id].user_id # last'.user_id
     \/ vault_holdings[last'.holding_id].status # "tradable"

BadBuy == last'.type = "buy" /\ last'.holding_id # NULL

(* C10: place_order(sell) fails and leaves the six tables as they were when
   the holding is not the caller's, is not tradable, does not exist, is not
   given, or the quantity is not 1; so does place_order(buy) with a holding
   reference. *)
C10_SellValidation ==
  [][(last'.op = "place_order" /\ (BadSell \/ BadBuy))
       => (~last'.ok /\ UNCHANGED dbvars)]_vars

C10_Witness ==
  /\ last.op = "place_order"
  /\ last.type = "sell"
  /\ ~last.ok
  /\ last.quantity = 1
  /\ last.holding_id \in DOMAIN vault_holdings
  /\ vault_holdings[last.holding_id].user_id = last.user_id
  /\ vault_holdings[last.holding_id].status = "listed"

(* C11: cancel_order fails and changes no table whenever the order does not
   exist, belongs to another account, or is filled or cancelled; a second
   cancel of the same order fails and refunds or unlists nothing. *)
C11_CancelRejected ==
  [][(/\ last'.op = "cancel_order"
      /\ \/ last'.id \notin DOMAIN orders
         \/ orders[last'.id].user_id # last'.user_id
         \/ orders[last'.id].status \in {"filled", "cancelled"})
       => (~last'.ok /\ UNCHANGED dbvars)]_vars

C11_Witness ==
  /\ last.op = "cancel_order"
  /\ ~last.ok
  /\ last.err = "not_found"
  /\ last.id \in DOMAIN orders
  /\ orders[last.id].user_id = last.user_id
  /\ orders[last.id].status = "cancelled"
  /\ \E i \in DOMAIN orders : orders[i].status = "filled"

(* C12: in every step, every order that exists stays, its quantity does not
   increase, an open order stays open or becomes filled or cancelled, and
   an order that is filled or cancelled is not changed at all. *)
C12_OrderLifecycle ==
  [][\A i \in DOMAIN orders :
        /\ i \in DOMAIN orders'
        /\ orders'[i].quantity <= orders[i].quantity
        /\ orders'[i].status \in {"open", "filled", "cancelled"}
        /\ orders[i].status # "open" => orders'[i] = orders[i]
        /\ [orders'[i] EXCEPT !.status = "open", !.quantity = 0]
              = [orders[i] EXCEPT !.status = "open", !.quantity = 0]]_vars

C12_Witness ==
  /\ last.op = "place_order"
  /\ last.ok
  /\ last.type = "sell"
  /\ orders[last.id].status = "filled"
  /\ \E i \in DOMAIN orders :
        /\ orders[i].type = "buy"
        /\ orders[i].status = "open"
        /\ orders[i].quantity = 4
        /\ \A j \in DOMAIN orders \ {i} : orders[j].type = "sell"
  /\ \E j \in DOMAIN orders : orders[j].status = "cancelled"

(* C13: in every reachable state of overlapping place_order and
   cancel_order calls, every account's cash_balance and locked_balance are
   at least 0, in the committed rows and in what each transaction reads,
   and no call is ended by a CHECK constraint: a buy that would overdraw is
   rejected by the balance check of the locking step. *)
C13_NonNegativeBalances ==
  /\ \A a \in Accounts :
        /\ profiles[a].cash_balance >= 0
        /\ profiles[a].locked_balance >= 0
        /\ \A t \in Sessions :
              /\ View(t).profiles[a].cash_balance >= 0
              /\ View(t).profiles[a].locked_balance >= 0
  /\ last.err # "constraint"

C13_Witness ==
  /\ last.op = "place_order"
  /\ last.type = "buy"
  /\ ~last.ok
  /\ last.err = "insufficient_funds"
  /\ last.waited
  /\ profiles[last.user_id].cash_balance < last.price * last.quantity
  /\ \E i \in DOMAIN orders :
        /\ orders[i].type = "buy"
        /\ orders[i].status = "open"
        /\ orders[i].user_id = last.user_id
        /\ profiles[last.user_id].cash_balance + orders[i].price * orders[i].quantity
              >= last.price * last.quantity

(* C14: in every step between committed states, each new trade row for
   holding h with buyer b, seller s and price p comes with h passing from s
   to b as tradable, no holding is traded twice, every account's
   cash_balance + locked_balance changes by exactly the prices of the new
   trades it sold minus those it bought, a holding changes owner only with
   a new trade row for it, earlier trade rows stay, and a call that fails
   changes no table. *)
C14_TradeAtomicity ==
  [][/\ Len(trades') >= Len(trades)
     /\ SubSeq(trades', 1, Len(trades)) = trades
     /\ \A k \in NewTrades :
           LET h == trades'[k].holding_id
           IN /\ trades'[k].buyer_id # trades'[k].seller_id
              /\ vault_holdings[h].user_id = trades'[k].seller_id
              /\ vault_holdings'[h].user_id = trades'[k].buyer_id
              /\ vault_holdings'[h].status = "tradable"
              /\ \A j \in NewTrades : trades'[j].holding_id = h => j = k
     /\ \A a \in Accounts :
           Balance(a)' = Balance(a) + Received(trades', Len(trades) + 1, a)
                                    - Paid(trades', Len(trades) + 1, a)
     /\ \A h \in DOMAIN vault_holdings :
           vault_holdings'[h].user_id # vault_holdings[h].user_id
              => \E k \in NewTrades :
                    /\ trades'[k].holding_id = h
                    /\ trades'[k].seller_id = vault_holdings[h].user_id
                    /\ trades'[k].buyer_id = vault_holdings'[h].user_id
     /\ ~last'.ok => UNCHANGED dbvars]_vars

C14_Witness ==
  /\ last.op = "place_order"
  /\ ~last.ok
  /\ Len(trades) = 2
  /\ trades[1].buyer_id = trades[2].seller_id
  /\ trades[1].holding_id # trades[2].holding_id
  /\ \A k \in DOMAIN trades :
        /\ vault_holdings[trades[k].holding_id].user_id = trades[k].buyer_id
        /\ vault_holdings[trades[k].holding_id].status = "tradable"

Maker(orderHash) == orderHash[2]

Nonce(orderHash) == orderHash[7]

(* the order was settled before, or its maker has cancelled its nonce *)
Spent(orderHash) ==
  \/ orderHash \in settledOrders
  \/ <<Maker(orderHash), Nonce(orderHash)>> \in cancelledNonces

TokenState == <<usdcBalance, nftBalance>>

(* C15: a settle transaction succeeds only if neither of its two orders
   was settled before and neither maker has cancelled that order's nonce;
   a settle that includes a settled or cancelled order reverts and moves no
   USDC and no NFT; a successful settle marks both orders settled, and no
   transaction ever removes a settled mark or a cancelled nonce. *)
C15_NoReplayNoCancelled ==
  [][/\ settledOrders \subseteq settledOrders'
     /\ cancelledNonces \subseteq cancelledNonces'
     /\ receipt'.op = "settle" =>
           /\ receipt'.ok => (~Spent(receipt'.buyHash) /\ ~Spent(receipt'.sellHash))
           /\ receipt'.ok => {receipt'.buyHash, receipt'.sellHash} \subseteq settledOrders'
           /\ (Spent(receipt'.buyHash) \/ Spent(receipt'.sellHash)) =>
                 /\ ~receipt'.ok
                 /\ UNCHANGED <<TokenState, settledOrders, cancelledNonces>>]_vars

C15_Witness ==
  /\ receipt.op = "settle"
  /\ ~receipt.ok
  /\ receipt.err = "OrderAlreadySettled"
  /\ receipt.sellHash \in settledOrders
  /\ receipt.buyHash \notin settledOrders
  /\ <<Maker(receipt.buyHash), Nonce(receipt.buyHash)>> \notin cancelledNonces
  /\ cancelledNonces # {}
  /\ usdcBalance[feeRecipient] > 0

InMatchingLoop(t) ==
  /\ tx[t].call.op = "place_order"
  /\ \/ tx[t].pc = "fetch"
     \/ tx[t].pc = "settle" /\ tx[t].call.type = "buy"

(* C16: no place_order call is ever suspended in its matching loop on the
   row lock of a candidate (the row of the resting order, the holding of a
   resting ask) that another call holds. *)
C16_SkipOnContention ==
  \A t \in Sessions : ~(InMatchingLoop(t) /\ Blocked(t) /\ tx[t].waited)

(* a row of the ask cursor of the call in last': the holding is not looked at *)
BookAsk(i) ==
  /\ orders[i].type = "sell"
  /\ orders[i].status = "open"
  /\ orders[i].symbol = last'.symbol
  /\ orders[i].user_id # last'.user_id
  /\ orders[i].price <= last'.price

HoldingGone(i) == orders[i].holding_id \notin DOMAIN vault_holdings

HoldingMoved(i) ==
  /\ ~HoldingGone(i)
  /\ \/ vault_holdings[orders[i].holding_id].status # "listed"
     \/ vault_holdings[orders[i].holding_id].user_id # orders[i].user_id

(* the first row of the cursor: every buy with quantity >= 1 reaches it *)
FirstAsk(i) ==
  /\ BookAsk(i)
  /\ \A j \in DOMAIN orders : BookAsk(j) => ~BetterAsk(j, i)

FundedBuy ==
  /\ last'.op = "place_order"
  /\ last'.type = "buy"
  /\ last'.quantity >= 1
  /\ profiles[last'.user_id].cash_balance >= last'.price * last'.quantity

(* the call succeeded, the stale ask is cancelled, nothing was traded or
   paid for it, and the next candidate was tried *)
SelfHealed(i) ==
  /\ last'.ok
  /\ orders'[i].status = "cancelled"
  /\ orders'[i].quantity = orders[i].quantity
  /\ vault_holdings' = [h \in DOMAIN vault_holdings |->
                          IF \E k \in NewTrades : trades'[k].holding_id = h
                          THEN vault_holdings'[h] ELSE vault_holdings[h]]
  /\ \A k \in NewTrades :
        /\ trades'[k].holding_id # orders[i].holding_id
        /\ \E j \in DOMAIN orders \ {i} :
              /\ EligibleAsk(j)
              /\ TradedInStep(j)
              /\ orders[j].holding_id = trades'[k].holding_id
  /\ profiles'[orders[i].user_id].cash_balance =
        profiles[orders[i].user_id].cash_balance
           + Received(trades', Len(trades) + 1, orders[i].user_id)
  /\ (\E j \in DOMAIN orders : EligibleAsk(j)) => Len(trades') > Len(trades)

(* C17 (as the specification states it): a funded buy whose first candidate
   is a resting ask with a holding that is no longer listed, no longer the
   maker's, or no longer there, succeeds, cancels that ask, trades and pays
   nothing for it, and goes on to the next candidate. *)
C17_StaleSelfHeal ==
  [][\A i \in DOMAIN orders :
        (FundedBuy /\ FirstAsk(i) /\ (HoldingMoved(i) \/ HoldingGone(i)))
           => SelfHealed(i)]_vars

(* C17 (what place_order does): the same holds when the holding of every
   ask in the cursor still exists. *)
C17_StaleAskCancelled ==
  [][\A i \in DOMAIN orders :
        (/\ FundedBuy
         /\ FirstAsk(i)
         /\ HoldingMoved(i)
         /\ \A j \in DOMAIN orders : BookAsk(j) => ~HoldingGone(j))
           => SelfHealed(i)]_vars

C17_Witness ==
  /\ last.op = "place_order"
  /\ last.type = "buy"
  /\ last.ok
  /\ Len(trades) = 1
  /\ trades[1].buyer_id = last.user_id
  /\ trades[1].price = 100
  /\ \E i \in DOMAIN orders :
        /\ orders[i].type = "sell"
        /\ orders[i].status = "cancelled"
        /\ orders[i].price = 95
        /\ orders[i].user_id = trades[1].seller_id
        /\ orders[i].holding_id \in DOMAIN vault_holdings
        /\ vault_holdings[orders[i].holding_id].status = "withdrawn"
        /\ vault_holdings[orders[i].holding_id].user_id = orders[i].user_id

(* C18: a successful place_order(buy, L, q) that fills k units at prices
   E1 .. Ek, each at most L, leaves the buyer's locked_balance higher by
   exactly L * (q - k), which is L times the order's remaining quantity,
   and the buyer's cash_balance lower by exactly L * (q - k) plus the sum
   of the execution prices: each filled unit releases L from
   locked_balance and returns L - E to cash_balance. *)
C18_PriceImprovement ==
  [][(Placed /\ last'.type = "buy") =>
       LET u == last'.user_id
           L == last'.price
           q == last'.quantity
           k == Len(trades') - Len(trades)
           paid == Paid(trades', Len(trades) + 1, u)
       IN /\ \A n \in NewTrades : trades'[n].buyer_id = u /\ trades'[n].price <= L
          /\ orders'[last'.id].quantity = q - k
          /\ profiles'[u].locked_balance =
                profiles[u].locked_balance + L * q - L * k
          /\ profiles'[u].locked_balance - profiles[u].locked_balance =
                L * orders'[last'.id].quantity
          /\ profiles'[u].cash_balance =
                profiles[u].cash_balance - L * q + (L * k - paid)]_vars

C18_Witness ==
  /\ last.op = "place_order"
  /\ last.ok
  /\ last.type = "buy"
  /\ last.price = 120
  /\ last.quantity = 2
  /\ orders[last.id].status = "open"
  /\ orders[last.id].quantity = 1
  /\ Len(trades) = 1
  /\ trades[1].price = 95
  /\ profiles[last.user_id].locked_balance = 120
  /\ profiles[last.user_id].cash_balance = InitProfiles[last.user_id].cash_balance - 120 - 95

(* an open bid of another account on the call's symbol at or above its limit *)
MatchingBid(i) ==
  /\ orders[i].type = "buy"
  /\ orders[i].status = "open"
  /\ orders[i].symbol = last'.symbol
  /\ orders[i].user_id # last'.user_id
  /\ orders[i].price >= last'.price

BetterBid(j, i) ==
  \/ orders[j].price > orders[i].price
  \/ orders[j].price = orders[i].price /\ orders[j].created_at < orders[i].created_at

(* the sell traded with bid i, at the bid's price *)
SoldTo(i) ==
  LET s == last'.user_id
      b == orders[i].user_id
      h == last'.holding_id
      E == orders[i].price
  IN /\ Len(trades') = Len(trades) + 1
     /\ trades'[Len(trades')] = [holding_id |-> h, symbol |-> last'.symbol,
                                 buyer_id |-> b, seller_id |-> s, price |-> E]
     /\ profiles'[b].locked_balance = profiles[b].locked_balance - E
     /\ profiles'[b].cash_balance = profiles[b].cash_balance
     /\ profiles'[s].cash_balance = profiles[s].cash_balance + E
     /\ profiles'[s].locked_balance = profiles[s].locked_balance
     /\ vault_holdings'[h].user_id = b
     /\ vault_holdings'[h].status = "tradable"
     /\ orders'[i].quantity = orders[i].quantity - 1
     /\ orders'[last'.id].status = "filled"
     /\ \A j \in DOMAIN orders \ {i} : orders'[j] = orders[j]

(* the sell rests: nothing traded, the holding is listed at the limit *)
Rests ==
  /\ trades' = trades
  /\ profiles' = profiles
  /\ orders'[last'.id].status = "open"
  /\ orders'[last'.id].quantity = last'.quantity
  /\ orders'[last'.id].price = last'.price
  /\ orders'[last'.id].holding_id = last'.holding_id
  /\ vault_holdings'[last'.holding_id].user_id = last'.user_id
  /\ vault_holdings'[last'.holding_id].status = "listed"
  /\ vault_holdings'[last'.holding_id].listing_price = last'.price
  /\ \A j \in DOMAIN orders : orders'[j] = orders[j]

(* C19: a successful place_order(sell, P) trades with the open bid of
   another account on the symbol that has the highest price >= P, the
   earliest created among equals: exactly the bid's price leaves that
   buyer's locked_balance and arrives in the seller's cash_balance and the
   holding becomes the buyer's; with no such bid the sell order stays open
   and the holding is listed at P. *)
C19_IncomingSell ==
  [][(Placed /\ last'.type = "sell") =>
       IF \E i \in DOMAIN orders : MatchingBid(i)
       THEN \E i \in DOMAIN orders :
               /\ MatchingBid(i)
               /\ \A j \in DOMAIN orders : MatchingBid(j) => ~BetterBid(j, i)
               /\ SoldTo(i)
       ELSE Rests]_vars

C19_Witness ==
  /\ last.op = "place_order"
  /\ last.ok
  /\ last.type = "sell"
  /\ last.price = 95
  /\ Len(orders) = 3
  /\ orders[1].type = "buy" /\ orders[1].price = 95 /\ orders[1].status = "open"
  /\ orders[2].type = "buy" /\ orders[2].price = 120 /\ orders[2].status = "filled"
  /\ orders[3].status = "filled"
  /\ Len(trades) = 1
  /\ trades[1].price = 120
  /\ profiles[orders[1].user_id].locked_balance = 95
  /\ vault_holdings[last.holding_id].user_id = orders[2].user_id

RECURSIVE LockedByOrders(_, _, _)
LockedByOrders(O, a, k) ==
  IF k > Len(O) THEN 0
  ELSE (IF O[k].type = "buy" /\ O[k].status = "open" /\ O[k].user_id = a
        THEN O[k].price * O[k].quantity ELSE 0) + LockedByOrders(O, a, k + 1)

(* order i was cancelled in this step: it was open, nothing was traded,
   a bid's remaining limit * quantity went back to cash, an ask's holding
   is the maker's again and tradable *)
CancelOutcome(i) ==
  LET o == orders[i]
      u == o.user_id
  IN /\ o.status = "open"
     /\ orders'[i] = [o EXCEPT !.status = "cancelled"]
     /\ trades' = trades
     /\ o.type = "buy" =>
           /\ profiles'[u].cash_balance = profiles[u].cash_balance + o.price * o.quantity
           /\ profiles'[u].locked_balance = profiles[u].locked_balance - o.price * o.quantity
     /\ o.type = "sell" =>
           /\ profiles' = profiles
           /\ vault_holdings[o.holding_id].user_id = u
           /\ vault_holdings[o.holding_id].status = "listed"
           /\ vault_holdings'[o.holding_id].user_id = u
           /\ vault_holdings'[o.holding_id].status = "tradable"

(* a unit of order i was traded in this step: the order was open and is
   not cancelled, and the step records the trade with its maker *)
TradeOutcome(i) ==
  LET o == orders[i]
  IN /\ o.status = "open"
     /\ orders'[i].status # "cancelled"
     /\ orders'[i].quantity = o.quantity - 1
     /\ orders'[i].status = IF o.quantity = 1 THEN "filled" ELSE "open"
     /\ Len(trades') = Len(trades) + 1
     /\ IF o.type = "sell"
        THEN /\ trades'[Len(trades')].seller_id = o.user_id
             /\ trades'[Len(trades')].holding_id = o.holding_id
             /\ vault_holdings'[o.holding_id].user_id = trades'[Len(trades')].buyer_id
        ELSE /\ trades'[Len(trades')].buyer_id = o.user_id
             /\ profiles'[o.user_id].locked_balance =
                   profiles[o.user_id].locked_balance - o.price
             /\ profiles'[o.user_id].cash_balance = profiles[o.user_id].cash_balance

(* a cancel_order call of session t ends in this step with an error *)
CancelFails(t) ==
  /\ tx[t].call.op = "cancel_order"
  /\ tx[t].pc # "idle"
  /\ tx'[t].pc = "idle"
  /\ ~last'.ok

(* C20: between committed states of overlapping cancel_order and
   place_order calls, an order becomes cancelled only from open and with
   the cancel's whole effect and no trade, a unit of an order is traded
   only while the order is open and never together with its cancel, a
   cancel by the owner fails only when the order is no longer open (or its
   transaction is the victim of a deadlock) and then changes nothing; every
   account's locked_balance is exactly what its open bids still lock, and a
   holding is listed exactly when an open ask of its owner names it. *)
C20_CancelRacesMatch ==
  [][/\ \A a \in Accounts :
           profiles'[a].locked_balance = LockedByOrders(orders', a, 1)
     /\ \A h \in DOMAIN vault_holdings' :
           vault_holdings'[h].status = "listed"
              <=> \E i \in OpenSells(orders', h) :
                     orders'[i].user_id = vault_holdings'[h].user_id
     /\ \A i \in DOMAIN orders :
           /\ (orders'[i].status = "cancelled" /\ orders[i].status # "cancelled")
                 => CancelOutcome(i)
           /\ orders'[i].quantity # orders[i].quantity => TradeOutcome(i)
     /\ \A t \in Sessions :
           CancelFails(t) =>
              /\ UNCHANGED dbvars
              /\ (/\ last'.id \in DOMAIN orders
                  /\ orders[last'.id].user_id = last'.user_id
                  /\ last'.err # "deadlock")
                    => orders[last'.id].status # "open"]_vars

C20_Witness ==
  /\ last.op = "cancel_order"
  /\ last.ok
  /\ last.waited
  /\ orders[last.id].type = "buy"
  /\ orders[last.id].status = "cancelled"
  /\ orders[last.id].quantity = 1
  /\ Len(trades) = 1
  /\ trades[1].buyer_id = last.user_id
  /\ trades[1].price = orders[last.id].price
  /\ profiles[last.user_id].locked_balance = 0
  /\ profiles[last.user_id].cash_balance =
        InitRaceBook.profiles[last.user_id].cash_balance + orders[last.id].price

(***************************************************************************)
(* Price publishing.                                                       *)
(***************************************************************************)
NewTicks == (Len(price_history) + 1) .. Len(price_history')

(* C21: every place_order that records trades sets the symbol's last price
   to the price of its last trade, raises the symbol's volume counter by
   the number of its trades and appends one price-history tick per trade,
   also when a trade repeats the price already published. *)
C21_PricePublishing ==
  [][(Placed /\ NewTrades # {}) =>
       /\ prices'[last'.symbol].price = trades'[Len(trades')].price
       /\ prices'[last'.symbol].volume_24h =
            prices[last'.symbol].volume_24h + Cardinality(NewTrades)
       /\ Cardinality(NewTicks) = Cardinality(NewTrades)]_vars

(* C21, what the trigger does: last price and volume follow every trade,
   and a tick is appended only for a trade whose price differs from the
   price published just before it, carrying that trade's price. *)
C21_TickOnPriceChange ==
  [][(Placed /\ NewTrades # {}) =>
       /\ prices'[last'.symbol].price = trades'[Len(trades')].price
       /\ prices'[last'.symbol].volume_24h =
            prices[last'.symbol].volume_24h + Cardinality(NewTrades)
       /\ Cardinality(NewTicks) <= Cardinality(NewTrades)
       /\ \A k \in NewTicks :
             \E j \in NewTrades : price_history'[k].price = trades'[j].price
       /\ (\A j \in NewTrades : trades'[j].price = prices[last'.symbol].price)
             => NewTicks = {}
       /\ (trades'[Len(trades) + 1].price # prices[last'.symbol].price)
             => NewTicks # {}]_vars

C21_Witness ==
  /\ Len(trades) = 2
  /\ trades[1].price = 95
  /\ trades[2].price = 95
  /\ Len(price_history) = 1
  /\ prices["X"].volume_24h = 2

(* C22: a successful cancel_order of a sell order sets that order to
   cancelled and its holding to tradable with no listing price, owner and
   every other column kept; no other order, holding, balance, trade or
   price changes.  A successful cancel of a buy order changes only that
   order's status and the caller's own cash and locked balances. *)
C22_CancelFrame ==
  [][Cancelled =>
       LET id == last'.id
           o  == orders[id]
           h  == o.holding_id
       IN /\ orders' = [orders EXCEPT ![id].status = "cancelled"]
          /\ trades' = trades
          /\ prices' = prices
          /\ price_history' = price_history
          /\ IF o.type = "sell"
             THEN /\ profiles' = profiles
                  /\ h \in DOMAIN vault_holdings
                  /\ vault_holdings' =
                       [vault_holdings EXCEPT ![h].status = "tradable",
                                              ![h].listing_price = NULL_PRICE]
                  /\ vault_holdings'[h].user_id = o.user_id
             ELSE /\ vault_holdings' = vault_holdings
                  /\ \A a \in Accounts \ {o.user_id} : profiles'[a] = profiles[a]]_vars

C22_Witness ==
  /\ last.op = "cancel_order"
  /\ last.ok
  /\ orders[last.id].type = "sell"
  /\ orders[last.id].status = "cancelled"
  /\ vault_holdings[orders[last.id].holding_id].status = "tradable"
  /\ vault_holdings[orders[last.id].holding_id].listing_price = NULL_PRICE
  /\ \E i \in DOMAIN orders : i # last.id /\ orders[i].status = "open"
                                 /\ orders[i].type = "buy"
                                 /\ orders[i].price >= orders[last.id].price

(***************************************************************************)
(* SpecValidate: place_order called directly with quantities and limit     *)
(* prices on both sides of zero.                                           *)
(***************************************************************************)
MaxValidateOrders == 3

ValidatePrices == {0 - 5, 0, 100}

ValidateQuantities == {0 - 1, 0, 1}

InitValidate == InitWith(InitProfiles, InitHoldings)

NextValidate ==
  \/ \E u \in Accounts, s \in Symbols, p \in ValidatePrices,
        q \in ValidateQuantities :
        /\ Len(orders) < MaxValidateOrders
        /\ PlaceOrder(u, s, "buy", p, q, NULL)
  \/ \E u \in Accounts, s \in Symbols, p \in ValidatePrices, h \in HoldingIds :
        /\ Len(orders) < MaxValidateOrders
        /\ PlaceOrder(u, s, "sell", p, 1, h)
  \/ \E id \in 1 .. MaxValidateOrders, u \in Accounts :
        /\ Len(orders) < MaxValidateOrders
        /\ CancelOrder(id, u)

SpecValidate == InitValidate /\ [][NextValidate]_vars

BadArgs == last'.op = "place_order" /\ (last'.quantity <= 0 \/ last'.price <= 0)

(* C23: a place_order whose quantity is 0 or negative, or whose limit price
   is not greater than 0, fails, and the tables are left as they were: no
   order row is persisted and no balance changes. *)
C23_Validation ==
  [][BadArgs => (~last'.ok /\ UNCHANGED dbvars)]_vars

(* C23, what the function and the constraints do: a place_order with a
   negative quantity or a limit price not greater than 0 fails and leaves
   the tables as they were; a buy of quantity 0 at a positive price
   succeeds, moves no funds, records no trade and persists one order row
   with status filled and quantity 0. *)
C23_ConstraintValidation ==
  [][BadArgs =>
       IF last'.type = "buy" /\ last'.quantity = 0 /\ last'.price > 0
       THEN /\ last'.ok
            /\ profiles' = profiles
            /\ trades' = trades
            /\ vault_holdings' = vault_holdings
            /\ Len(orders') = Len(orders) + 1
            /\ \A i \in DOMAIN orders : orders'[i] = orders[i]
            /\ orders'[Len(orders')].status = "filled"
            /\ orders'[Len(orders')].quantity = 0
       ELSE ~last'.ok /\ UNCHANGED dbvars]_vars

C23_Witness ==
  /\ last.op = "place_order"
  /\ ~last.ok
  /\ last.type = "buy"
  /\ last.quantity = 0 - 1
  /\ last.price = 100
  /\ profiles[last.user_id].locked_balance = 100
  /\ \E i \in DOMAIN orders : orders[i].status = "filled" /\ orders[i].type = "buy"
                                 /\ \A k \in DOMAIN trades : trades[k].buyer_id # orders[i].user_id

(* C24: after every call each account's locked_balance is the sum, over its
   open buy orders, of limit price times remaining quantity; a call raises
   an account's locked_balance only by placing that account's buy order,
   and lowers it only by cancelling one of the account's open buy orders
   or by filling units of them. *)
C24_LockedBalance ==
  [][\A a \in Accounts :
        LET before == profiles[a].locked_balance
            after  == profiles'[a].locked_balance
        IN /\ after = LockedByOrders(orders', a, 1)
           /\ after > before =>
                 /\ Placed /\ last'.type = "buy" /\ last'.user_id = a
                 /\ after - before = last'.price * orders'[Len(orders')].quantity
                 /\ orders'[Len(orders')].status = "open"
           /\ after < before =>
                 \/ /\ Cancelled /\ last'.user_id = a
                    /\ orders[last'.id].type = "buy"
                    /\ before - after = orders[last'.id].price * orders[last'.id].quantity
                 \/ /\ Placed /\ last'.type = "sell" /\ last'.user_id # a
                    /\ \E i \in DOMAIN orders :
                          /\ orders[i].type = "buy" /\ orders[i].user_id = a
                          /\ orders[i].status = "open"
                          /\ orders'[i].quantity = orders[i].quantity - 1
                          /\ before - after = orders[i].price]_vars

C24_Witness ==
  /\ last.op = "place_order"
  /\ last.ok
  /\ last.type = "sell"
  /\ Len(trades) = 1
  /\ \E i \in DOMAIN orders :
        /\ orders[i].type = "buy" /\ orders[i].status = "open"
        /\ orders[i].quantity = 1 /\ orders[i].price = 120
        /\ orders[i].user_id = trades[1].buyer_id
        /\ profiles[orders[i].user_id].locked_balance = 120
        /\ profiles[orders[i].user_id].cash_balance = 600 - 240

BoundAsks(h) ==
  {i \in OpenSells(orders, h) :
      /\ orders[i].user_id = vault_holdings[h].user_id
      /\ orders[i].price = vault_holdings[h].listing_price}

(* C25: in every state, whoever wrote the holding's status last, a holding
   is listed if and only if exactly one open sell order references it, and
   that order belongs to the holding's owner and carries the holding's
   listing price. *)
C25_ListedMeansBound ==
  \A h \in DOMAIN vault_holdings :
     vault_holdings[h].status = "listed"
        <=> (Cardinality(OpenSells(orders, h)) = 1 /\ BoundAsks(h) = OpenSells(orders, h))

(* C25, what place_order does among the other writers: a holding becomes
   listed through place_order only from tradable, by its owner's sell
   order, which is then open and carries the listing price; otherwise only
   the status update endpoint lists it.  A listed holding leaves listed
   through place_order only by a trade that hands it to the buyer. *)
C25_ListedByEngine ==
  [][\A h \in DOMAIN vault_holdings \cap DOMAIN vault_holdings' :
        /\ (vault_holdings[h].status # "listed" /\ vault_holdings'[h].status = "listed")
              => \/ last'.op = "vault_update"
                 \/ /\ Placed /\ last'.type = "sell" /\ last'.holding_id = h
                    /\ vault_holdings[h].status = "tradable"
                    /\ vault_holdings[h].user_id = last'.user_id
                    /\ vault_holdings'[h].user_id = last'.user_id
                    /\ vault_holdings'[h].listing_price = last'.price
                    /\ Len(orders') \in OpenSells(orders', h)
                    /\ orders'[Len(orders')].price = last'.price
                    /\ orders'[Len(orders')].user_id = last'.user_id
        /\ (vault_holdings[h].status = "listed" /\ vault_holdings'[h].status # "listed"
              /\ last'.op = "place_order")
              => /\ Placed /\ last'.type = "buy"
                 /\ vault_holdings'[h].status = "tradable"
                 /\ vault_holdings'[h].user_id = last'.user_id
                 /\ vault_holdings[h].user_id # last'.user_id
                 /\ \E k \in NewTrades : trades'[k].holding_id = h]_vars

C25_Witness ==
  /\ last.op = "place_order"
  /\ last.ok
  /\ last.type = "sell"
  /\ vault_holdings[last.holding_id].status = "listed"
  /\ Cardinality(OpenSells(orders, last.holding_id)) = 2
  /\ Len(trades) = 0

(***************************************************************************)
(* SpecTakers: one resting bid for one unit; two sessions sell to it.      *)
(***************************************************************************)
TakerPrices == {95}

TakerHoldings == {"h1", "h2"}

InitTakersBook ==
  place_order(
    place_order(DB(InitConcProfiles, InitHoldings, <<>>, <<>>, InitPrices, <<>>),
                "A", "X", "sell", 100, 1, "h3", 1).db,
    "A", "X", "buy", 95, 1, NULL, 2).db

InitTakers ==
  /\ profiles = InitTakersBook.profiles
  /\ vault_holdings = InitTakersBook.vault_holdings
  /\ orders = InitTakersBook.orders
  /\ trades = InitTakersBook.trades
  /\ prices = InitTakersBook.prices
  /\ price_history = InitTakersBook.price_history
  /\ last = NoCall
  /\ tx = [t \in Sessions |-> Idle]
  /\ clock = InitConcClock
  /\ InitChain

NextTakers ==
  \/ NextConc
  \/ \E t \in Sessions, u \in Accounts, s \in Symbols, p \in TakerPrices,
        h \in TakerHoldings :
        /\ clock < InitConcClock + MaxCalls
        /\ t = "s1" \/ tx["s1"].pc # "idle"
        /\ BeginPlace(t, u, s, "sell", p, 1, h)

SpecTakers == InitTakers /\ [][NextTakers]_vars

(* the asks a step fills, and the units a step takes from a's buy orders:
   a new buy order starts from the quantity of its call *)
SoldNow ==
  {i \in DOMAIN orders' :
      /\ orders'[i].type = "sell"
      /\ orders'[i].status = "filled"
      /\ i \in DOMAIN orders => orders[i].status = "open"}

RECURSIVE UnitsBought(_, _, _, _, _)
UnitsBought(O, P, q, a, k) ==
  IF k > Len(P) THEN 0
  ELSE (IF P[k].type = "buy" /\ P[k].user_id = a
        THEN (IF k \in DOMAIN O THEN O[k].quantity ELSE q) - P[k].quantity
        ELSE 0) + UnitsBought(O, P, q, a, k + 1)

(* C26: between committed states of overlapping calls, every new trade
   fills exactly one ask that was open (or is the incoming sell) and every
   ask filled has exactly one new trade, so no sell order is in two trades
   and no holding goes to two takers; the trades an account buys are
   exactly the units taken off its buy orders, whose quantities only fall
   and never below 0; an order is filled only at quantity 0, a resting one
   by its last unit; a filled or cancelled order never changes again; and
   no call is aborted by a CHECK or foreign-key constraint, the database's
   last defence against a unit taken twice. *)
C26_NoOverfill ==
  [][/\ \A k \in NewTrades :
           Cardinality({i \in SoldNow :
                           /\ orders'[i].holding_id = trades'[k].holding_id
                           /\ orders'[i].user_id = trades'[k].seller_id}) = 1
     /\ \A i \in SoldNow :
           Cardinality({k \in NewTrades :
                           /\ orders'[i].holding_id = trades'[k].holding_id
                           /\ orders'[i].user_id = trades'[k].seller_id}) = 1
     /\ \A a \in Accounts :
           Cardinality({k \in NewTrades : trades'[k].buyer_id = a})
              = UnitsBought(orders, orders', last'.quantity, a, 1)
     /\ \A i \in DOMAIN orders' :
           /\ orders'[i].quantity >= 0
           /\ orders'[i].status = "filled" => orders'[i].quantity = 0
     /\ \A i \in DOMAIN orders :
           /\ orders'[i].quantity <= orders[i].quantity
           /\ orders[i].status # "open" => orders'[i] = orders[i]
           /\ (orders[i].status = "open" /\ orders'[i].status = "filled")
                 => orders[i].quantity = 1
     /\ last'.err # "constraint"]_vars

C26_Witness ==
  /\ last.op = "place_order"
  /\ last.ok
  /\ last.waited
  /\ last.type = "sell"
  /\ last.price \in TakerPrices
  /\ orders[last.id].status = "open"
  /\ vault_holdings[last.holding_id].status = "listed"
  /\ Len(trades) = 1
  /\ trades[1].seller_id = last.user_id
  /\ trades[1].holding_id # last.holding_id
  /\ trades[1].price = orders[2].price
  /\ orders[2].status = "filled"
  /\ profiles[orders[2].user_id].locked_balance = 0

(***************************************************************************)
(* SpecConcFair: SpecConc with every backend scheduled: a transaction      *)
(* whose next statement can run runs it, and the lock manager's deadlock   *)
(* check fires for a transaction that waits in a cycle.                    *)
(***************************************************************************)
Step(t) ==
  \/ BuyFunds(t)
  \/ SellHolding(t)
  \/ Fetch(t)
  \/ BuySettle(t)
  \/ BuyDelivery(t)
  \/ BuyRecording(t)
  \/ SellSettle(t)
  \/ SellDelivery(t)
  \/ SellRecording(t)
  \/ CancelLock(t)
  \/ CancelUnlock(t)
  \/ Commit(t)
  \/ DeadlockAbort(t)

(* Step(t) is enabled exactly when t is in progress and its next statement
   gets its row locks, or t waits in a cycle *)
CanStep(t) == tx[t].pc # "idle" /\ (~Blocked(t) \/ Deadlocked(t))

(* weak fairness of Step(t), its enabling condition written out *)
SpecConcFair ==
  /\ InitConc
  /\ [][NextConc]_vars
  /\ \A t \in Sessions : ([]<>(~CanStep(t)) \/ []<><<Step(t)>>_vars)

(* C27: in no reachable state are there two calls in progress each of which
   asks for a row lock that the other one holds. *)
C27_NoMutualWait ==
  \A t \in Sessions, o \in Sessions :
     ~(t # o /\ o \in WaitsFor(t) /\ t \in WaitsFor(o))

(* C27, what holds with the database's deadlock detection: every call in
   progress eventually ends, committed or failed with an error. *)
C27_EveryCallCompletes ==
  \A t \in Sessions : (tx[t].pc # "idle") ~> (tx[t].pc = "idle")

C27_Witness ==
  /\ last.op = "place_order"
  /\ last.type = "buy"
  /\ ~last.ok
  /\ last.err = "deadlock"
  /\ \E t \in Sessions :
        /\ tx[t].pc = "deliver"
        /\ tx[t].call.type = "buy"
        /\ tx[t].call.user_id # last.user_id
        /\ Head(tx[t].rows).user_id = last.user_id
        /\ ~Blocked(t)

(***************************************************************************)
(* SpecSymbol: two symbols; place_order is called with either symbol for   *)
(* holdings of either symbol.                                              *)
(***************************************************************************)
MaxSymbolOrders == 3

BookSymbols == {"X", "Y"}

SymbolHoldings == {"h1", "h2"}

InitSymbolHoldings ==
  [h \in HoldingIds |->
     CASE h = "h1" -> Holding("B", "X", "tradable")
       [] h = "h2" -> Holding("B", "Y", "tradable")
       [] h = "h3" -> Holding("A", "X", "tradable")
       [] OTHER -> Holding("A", "Y", "authenticating")]

InitSymbol ==
  /\ profiles = InitProfiles
  /\ vault_holdings = InitSymbolHoldings
  /\ orders = <<>>
  /\ trades = <<>>
  /\ prices = [s \in BookSymbols |-> [price |-> 100, volume_24h |-> 0]]
  /\ price_history = <<>>
  /\ last = NoCall
  /\ tx = <<>>
  /\ clock = 1
  /\ InitChain

NextSymbol ==
  \/ \E u \in Accounts, s \in BookSymbols, h \in SymbolHoldings :
        /\ Len(orders) < MaxSymbolOrders
        /\ PlaceOrder(u, s, "sell", 100, 1, h)
  \/ \E u \in Accounts, s \in BookSymbols, q \in 1 .. MaxQty :
        /\ Len(orders) < MaxSymbolOrders
        /\ PlaceOrder(u, s, "buy", 100, q, NULL)
  \/ \E id \in 1 .. MaxSymbolOrders, u \in Accounts :
        /\ Len(orders) < MaxSymbolOrders
        /\ CancelOrder(id, u)

SpecSymbol == InitSymbol /\ [][NextSymbol]_vars

(* C28: in every state each open sell order carries the symbol of the
   holding it references and each trade record carries the symbol of the
   holding it transferred. *)
C28_SymbolConsistency ==
  /\ \A i \in DOMAIN orders :
        (orders[i].type = "sell" /\ orders[i].status = "open"
           /\ orders[i].holding_id \in DOMAIN vault_holdings)
          => orders[i].symbol = vault_holdings[orders[i].holding_id].symbol
  /\ \A k \in DOMAIN trades :
        trades[k].holding_id \in DOMAIN vault_holdings
          => trades[k].symbol = vault_holdings[trades[k].holding_id].symbol

(* C28, what place_order keeps: an order carries the symbol of its call,
   every trade carries the symbol of the incoming order and of the resting
   order it matched, and the holding is the one the ask names; the
   holding's own symbol is never read or changed. *)
C28_OrderSymbol ==
  [][Placed =>
       /\ orders'[last'.id].symbol = last'.symbol
       /\ \A h \in DOMAIN vault_holdings :
             vault_holdings'[h].symbol = vault_holdings[h].symbol
       /\ \A k \in NewTrades :
             /\ trades'[k].symbol = last'.symbol
             /\ \E i \in DOMAIN orders :
                   /\ orders[i].status = "open"
                   /\ orders[i].symbol = trades'[k].symbol
                   /\ orders[i].type # last'.type
                   /\ orders'[i].quantity = orders[i].quantity - 1
                   /\ trades'[k].holding_id =
                        (IF last'.type = "buy" THEN orders[i].holding_id
                         ELSE last'.holding_id)]_vars

C28_Witness ==
  /\ last.op = "place_order"
  /\ last.ok
  /\ last.type = "buy"
  /\ last.symbol = "Y"
  /\ Len(trades) = 1
  /\ trades[1].symbol = "Y"
  /\ trades[1].buyer_id = last.user_id
  /\ vault_holdings[trades[1].holding_id].symbol = "X"
  /\ vault_holdings[trades[1].holding_id].user_id = last.user_id

Crossed(i, j) ==
  /\ orders[i].type = "buy" /\ orders[i].status = "open"
  /\ orders[j].type = "sell" /\ orders[j].status = "open"
  /\ orders[i].symbol = orders[j].symbol
  /\ orders[i].user_id # orders[j].user_id
  /\ orders[i].price >= orders[j].price
  /\ orders[j].holding_id \in DOMAIN vault_holdings
  /\ vault_holdings[orders[j].holding_id].status = "listed"
  /\ vault_holdings[orders[j].holding_id].user_id = orders[j].user_id

(* C29: whenever no call is in progress, also after a buy and a crossing
   sell that overlapped, no open bid and open ask of different accounts on
   one symbol cross while the ask's holding is listed and its maker's. *)
C29_BookNotCrossed ==
  (\A t \in DOMAIN tx : tx[t].pc = "idle")
     => \A i \in DOMAIN orders, j \in DOMAIN orders : ~Crossed(i, j)

(***************************************************************************)
(* Writers of profiles.cash_balance outside the engine: the deposit        *)
(* webhook and the withdrawal route.  Each reads cash_balance with one     *)
(* statement and writes the new value with a later one.                    *)
(***************************************************************************)
(* .from("profiles").select("cash_balance").eq("id", userId).single() *)
select_cash_balance(D, userId) == D.profiles[userId].cash_balance

(* .from("profiles").update({ cash_balance: v }).eq("id", userId) *)
update_cash_balance(D, userId, v) ==
  LET row == [D.profiles[userId] EXCEPT !.cash_balance = v]
  IN IF profiles_check(row) THEN Ok([D EXCEPT !.profiles[userId] = row])
     ELSE Raise(D, "constraint")

(* deposit webhook: newBalance = Number(profile.cash_balance) + amountDollars *)
deposit_update_Increment(D, userId, cash_balance, amountDollars) ==
  UpdateProfile(D, userId, amountDollars, 0)

deposit_update(D, userId, cash_balance, amountDollars) ==
  update_cash_balance(D, userId, cash_balance + amountDollars)

(* withdraw: the holding goes to withdrawn when it is the caller's and
   tradable; no row matched is not an error *)
withdraw_holding(D, userId, holdingId) ==
  IF /\ HoldingExists(D, holdingId)
     /\ D.vault_holdings[holdingId].user_id = userId
     /\ D.vault_holdings[holdingId].status = "tradable"
  THEN UpdateHolding(D, holdingId,
                     [D.vault_holdings[holdingId] EXCEPT !.status = "withdrawn"])
  ELSE Ok(D)

(* withdraw: cash_balance: Number(profile.cash_balance) - fee *)
withdraw_deduct(D, userId, cash_balance, fee) ==
  update_cash_balance(D, userId, cash_balance - fee)

(***************************************************************************)
(* SpecHook: place_order and cancel_order calls commit between the         *)
(* statements of one request of the webhook or the withdrawal route.       *)
(***************************************************************************)
MaxHookCalls == 3

DepositAmounts == {50}

WithdrawFees == {20}

HookHoldings == {"h1", "h3"}

HookIdle ==
  [pc |-> "idle", op |-> "none", userId |-> NULL, holdingId |-> NULL,
   amount |-> 0, cash_balance |-> 0]

InitHook ==
  /\ profiles = InitProfiles
  /\ vault_holdings = InitHoldings
  /\ orders = <<>>
  /\ trades = <<>>
  /\ prices = InitPrices
  /\ price_history = <<>>
  /\ last = NoCall
  /\ tx = [hook |-> HookIdle]
  /\ clock = 1
  /\ InitChain

DepositRead(userId, amountDollars) ==
  /\ tx.hook.pc = "idle"
  /\ tx' = [hook |-> [HookIdle EXCEPT
                        !.pc = "update", !.op = "deposit", !.userId = userId,
                        !.amount = amountDollars,
                        !.cash_balance = select_cash_balance(Committed, userId)]]
  /\ UNCHANGED <<dbvars, last, clock, chainvars>>

WithdrawRead(userId, holdingId, fee) ==
  /\ tx.hook.pc = "idle"
  /\ IF select_cash_balance(Committed, userId) < fee
     THEN /\ last' = [NoCall EXCEPT !.op = "withdraw", !.user_id = userId,
                                    !.holding_id = holdingId, !.ok = FALSE,
                                    !.err = "insufficient_funds"]
          /\ UNCHANGED tx
     ELSE /\ tx' = [hook |-> [HookIdle EXCEPT
                        !.pc = "holding", !.op = "withdraw", !.userId = userId,
                        !.holdingId = holdingId, !.amount = fee,
                        !.cash_balance = select_cash_balance(Committed, userId)]]
          /\ UNCHANGED last
  /\ UNCHANGED <<dbvars, clock, chainvars>>

WithdrawHolding ==
  /\ tx.hook.pc = "holding"
  /\ Install(withdraw_holding(Committed, tx.hook.userId, tx.hook.holdingId).db)
  /\ tx' = [hook |-> [tx.hook EXCEPT !.pc = "update"]]
  /\ UNCHANGED <<last, clock, chainvars>>

HookUpdated(r) ==
  /\ Install(r.db)
  /\ last' = [NoCall EXCEPT !.op = tx.hook.op, !.user_id = tx.hook.userId,
                            !.holding_id = tx.hook.holdingId,
                            !.ok = r.ok, !.err = r.err]
  /\ tx' = [hook |-> HookIdle]
  /\ clock' = clock + 1
  /\ UNCHANGED chainvars

DepositUpdate ==
  /\ tx.hook.pc = "update"
  /\ tx.hook.op = "deposit"
  /\ HookUpdated(deposit_update(Committed, tx.hook.userId,
                                tx.hook.cash_balance, tx.hook.amount))

WithdrawDeduct ==
  /\ tx.hook.pc = "update"
  /\ tx.hook.op = "withdraw"
  /\ HookUpdated(withdraw_deduct(Committed, tx.hook.userId,
                                 tx.hook.cash_balance, tx.hook.amount))

NextHook ==
  \/ \E u \in Accounts, s \in Symbols, q \in 1 .. MaxQty :
        /\ clock <= MaxHookCalls
        /\ PlaceOrder(u, s, "buy", 100, q, NULL)
  \/ \E u \in Accounts, s \in Symbols, h \in HookHoldings :
        /\ clock <= MaxHookCalls
        /\ PlaceOrder(u, s, "sell", 100, 1, h)
  \/ \E id \in 1 .. MaxHookCalls, u \in Accounts :
        /\ clock <= MaxHookCalls
        /\ CancelOrder(id, u)
  \/ \E u \in Accounts, a \in DepositAmounts :
        /\ clock <= MaxHookCalls
        /\ DepositRead(u, a)
  \/ \E u \in Accounts, h \in HookHoldings, f \in WithdrawFees :
        /\ clock <= MaxHookCalls
        /\ WithdrawRead(u, h, f)
  \/ WithdrawHolding
  \/ DepositUpdate
  \/ WithdrawDeduct

SpecHook == InitHook /\ [][NextHook]_vars

HookWrites == tx.hook.pc = "update" /\ tx'.hook.pc = "idle"

HookChange == IF tx.hook.op = "deposit" THEN tx.hook.amount ELSE 0 - tx.hook.amount

(* C30: the write of the deposit webhook or of the withdrawal fee changes
   the account's cash_balance, as it stands when the write happens, by
   exactly the deposit or the fee: whatever place_order and cancel_order
   did to the account since the request read the balance is kept. *)
C30_NoLostUpdate ==
  [][HookWrites =>
       profiles'[tx.hook.userId].cash_balance =
          profiles[tx.hook.userId].cash_balance + HookChange]_vars

(* C30, what the two routes do: the write stores the balance the request
   read earlier plus the deposit or minus the fee, and nothing else of the
   account, of other accounts or of the book changes; it adds to the
   current balance only when no call changed the balance in between. *)
C30_WritesBalanceRead ==
  [][HookWrites =>
       /\ profiles'[tx.hook.userId].cash_balance = tx.hook.cash_balance + HookChange
       /\ profiles'[tx.hook.userId].locked_balance =
             profiles[tx.hook.userId].locked_balance
       /\ \A a \in Accounts \ {tx.hook.userId} : profiles'[a] = profiles[a]
       /\ UNCHANGED <<vault_holdings, orders, trades, prices, price_history>>
       /\ profiles[tx.hook.userId].cash_balance = tx.hook.cash_balance
             => profiles'[tx.hook.userId].cash_balance =
                   profiles[tx.hook.userId].cash_balance + HookChange]_vars

C30_Witness ==
  /\ last.op = "deposit"
  /\ last.ok
  /\ last.user_id = "A"
  /\ Len(orders) = 1
  /\ orders[1].type = "buy"
  /\ orders[1].status = "open"
  /\ orders[1].user_id = "A"
  /\ profiles["A"].locked_balance = 100
  /\ profiles["A"].cash_balance = 650

====
